---- MODULE Spec2Model ----
(***************************************************************************)
(* A model of fpk-compose-builder: the compose parser (variable extraction, *)
(* host-port and image parsing, extension-block stripping) and the manifest *)
(* generator.                                                               *)
(*                                                                          *)
(* Go strings are modelled as sequences of runes; a rune is written as a    *)
(* one-character TLA+ string ("a", ":"), and the rune named "U+540D" stands *)
(* for a CJK character whose UTF-8 encoding takes three bytes.              *)
(***************************************************************************)
EXTENDS Integers, Sequences, FiniteSets, TLC

VARIABLES
    pc,           \* position of the running function
    portArg,      \* extractHostPort: the argument as passed by the caller
    portMapping,  \* extractHostPort: the local after the protocol strip
    parts,        \* extractHostPort: strings.Split(portMapping, ":")
    hostPort,     \* extractHostPort: the returned host port
    imageArg,     \* extractImageInfo: the argument as passed by the caller
    image,        \* extractImageInfo: the local after the tag strip
    imageParts,   \* extractImageInfo: strings.Split(image, "/")
    imageInfo,    \* extractImageInfo: the returned [org, name]
    composeDecl,  \* the descriptor's services, in the order they are declared
    Services,     \* ComposeFile.Services: service name -> Service
    serviceNames, \* ExtractVariables: the slice of service names
    Variables,    \* ExtractVariables: the returned Variables
    data,         \* CleanComposeContent: the descriptor text passed in
    content,      \* CleanComposeContent: the generic map it is parsed into
    cleanData,    \* CleanComposeContent: the text returned
    manifest,     \* GenerateManifest: the x-fnpack manifest (nil is the empty map)
    pending,      \* GenerateManifest: the manifest keys the range has yet to visit
    result,       \* GenerateManifest: the working copy key -> string
    lines,        \* GenerateManifest: the output lines
    addedKeys,    \* GenerateManifest: the keys already emitted
    remainingKeys,\* GenerateManifest: the keys outside the field order
    manifestText, \* GenerateManifest: the returned text
    previousText, \* the text an earlier call returned for the same arguments
    replContent,  \* ReplaceVariables: the content passed in
    replPending,  \* ReplaceVariables: the placeholders the range has yet to visit
    replResult,   \* ReplaceVariables: the local result
    replaced,     \* ReplaceVariables: the returned text
    inputDir,     \* Builder.InputDir: the input directory as the file system holds it
    Compose,      \* Builder.Compose: the parsed descriptor (XFnpack.Manifest, XFnpack.Files)
    AppName,      \* Builder.AppName
    fs,           \* the file system below the working directory: path -> directory or file
    pendingKeys,  \* the keys a range over a map has yet to visit
    loopIndex,    \* the index a range over a slice has reached
    srcImg,       \* ProcessIcons: the source image
    buildErr,     \* what Build returns: "" until it returns, "nil", or the error
    skipFnpack,   \* the flag --skip-fnpack of the build command
    srcIcon,      \* squareImage: the argument src
    squared,      \* squareImage: the returned image
    outputFiles,  \* the names of the entries of Builder.OutputDir
    exitCode,     \* the exit code of the packager, -1 until it has run
    packaged,     \* the entries of Builder.OutputDir this run of the packager wrote
    fpkFile,      \* RunFnpack: the returned path
    fnpackErr,    \* RunFnpack: the returned error, "" until it returns
    valueManifest, \* GetManifestValue: the argument manifest
    valueKey,      \* GetManifestValue: the argument key
    valueDefault,  \* GetManifestValue: the argument defaultValue
    valueReturned  \* GetManifestValue: the returned string

hostPortVars == <<portArg, portMapping, parts, hostPort>>
imageVars == <<imageArg, image, imageParts, imageInfo>>
extractVars == <<composeDecl, Services, serviceNames, Variables>>
cleanVars == <<data, content, cleanData>>
manifestVars ==
    <<manifest, pending, result, lines, addedKeys, remainingKeys, manifestText,
      previousText>>

replaceVars == <<replContent, replPending, replResult, replaced>>

buildVars ==
    <<inputDir, Compose, AppName, fs, pendingKeys, loopIndex, srcImg, buildErr,
      skipFnpack>>

squareVars == <<srcIcon, squared>>
fnpackVars == <<outputFiles, exitCode, packaged, fpkFile, fnpackErr>>
valueVars == <<valueManifest, valueKey, valueDefault, valueReturned>>

vars ==
    <<pc, hostPortVars, imageVars, extractVars, cleanVars, manifestVars,
      replaceVars, buildVars, squareVars, fnpackVars, valueVars>>

\* The value of a component's variables in a run of another component.
IdleHostPort ==
    portArg = <<>> /\ portMapping = <<>> /\ parts = <<>> /\ hostPort = <<>>

IdleImage ==
    imageArg = <<>> /\ image = <<>> /\ imageParts = <<>> /\ imageInfo = <<>>

IdleExtract ==
    /\ composeDecl = <<>> /\ Services = <<>>
    /\ serviceNames = <<>> /\ Variables = <<>>

IdleClean ==
    data = <<>> /\ content = <<>> /\ cleanData = <<>>

IdleManifest ==
    /\ manifest = <<>> /\ pending = {} /\ result = <<>> /\ lines = <<>>
    /\ addedKeys = {} /\ remainingKeys = <<>> /\ manifestText = <<>>
    /\ previousText = <<>>

IdleReplace ==
    /\ replContent = <<>> /\ replPending = {}
    /\ replResult = <<>> /\ replaced = <<>>

IdleBuild ==
    /\ inputDir = <<>> /\ Compose = <<>> /\ AppName = <<>> /\ fs = <<>>
    /\ pendingKeys = {} /\ loopIndex = 0 /\ srcImg = <<>> /\ buildErr = ""
    /\ skipFnpack = FALSE

IdleSquare ==
    srcIcon = <<>> /\ squared = <<>>

IdleFnpack ==
    outputFiles = {} /\ exitCode = -1 /\ packaged = {} /\ fpkFile = <<>> /\ fnpackErr = ""

IdleValue ==
    /\ valueManifest = <<>> /\ valueKey = <<>>
    /\ valueDefault = <<>> /\ valueReturned = <<>>

----------------------------------------------------------------------------
(* Strings *)

\* The runes of the model in ascending code-point order (which is also the
\* order of their UTF-8 encodings, the order sort.Strings uses).
RuneOrder ==
    <<"\n", " ", "$", "-", ".", "/",
      "0", "1", "2", "3", "4", "5", "6", "7", "8", "9",
      ":", "<", "=", ">",
      "A", "B", "C", "D", "E", "F", "G", "H", "I", "J", "K", "L", "M",
      "N", "O", "P", "Q", "R", "S", "T", "U", "V", "W", "X", "Y", "Z",
      "[", "_",
      "a", "b", "c", "d", "e", "f", "g", "h", "i", "j", "k", "l", "m",
      "n", "o", "p", "q", "r", "s", "t", "u", "v", "w", "x", "y", "z",
      "{", "}", "U+540D">>

CodePoint(r) == CHOOSE i \in 1..Len(RuneOrder) : RuneOrder[i] = r

\* All strings over the rune set A of length at most n.
StringsUpTo(A, n) == UNION {[1..k -> A] : k \in 0..n}

\* s[from..] and s[..to], as Go slices s[from-1:] and s[:to].
Drop(s, k) == SubSeq(s, k + 1, Len(s))
Take(s, k) == SubSeq(s, 1, k)

\* strings.Index(s, sep) for a one-rune sep, 1-based; 0 when absent.
IndexRune(s, r) ==
    IF \E i \in 1..Len(s) : s[i] = r
    THEN CHOOSE i \in 1..Len(s) : s[i] = r /\ \A j \in 1..(i - 1) : s[j] # r
    ELSE 0

\* strings.LastIndex(s, sep) for a one-rune sep, 1-based; 0 when absent.
LastIndexRune(s, r) ==
    IF \E i \in 1..Len(s) : s[i] = r
    THEN CHOOSE i \in 1..Len(s) : s[i] = r /\ \A j \in (i + 1)..Len(s) : s[j] # r
    ELSE 0

\* strings.Contains(s, sep) for a one-rune sep.
ContainsRune(s, r) == \E i \in 1..Len(s) : s[i] = r

NoRune(s, r) == \A i \in 1..Len(s) : s[i] # r

CountRune(s, r) == Cardinality({i \in 1..Len(s) : s[i] = r})

\* strings.Split(s, sep) for a one-rune sep: never empty, n separators give
\* n + 1 tokens.
RECURSIVE Split(_, _)
Split(s, r) ==
    LET i == IndexRune(s, r)
    IN  IF i = 0 THEN <<s>>
        ELSE <<Take(s, i - 1)>> \o Split(Drop(s, i), r)

\* len(s): the number of bytes of the UTF-8 encoding of s.
RuneLen(r) == IF r = "U+540D" THEN 3 ELSE 1

RECURSIVE ByteLen(_)
ByteLen(s) == IF s = <<>> THEN 0 ELSE RuneLen(s[1]) + ByteLen(Tail(s))

\* strings.HasPrefix(s, prefix)
HasPrefix(s, prefix) == Len(s) >= Len(prefix) /\ Take(s, Len(prefix)) = prefix

\* strings.ReplaceAll(s, old, new) for a non-empty old: the non-overlapping
\* occurrences of old, found left to right, are replaced by new.
RECURSIVE ReplaceAll(_, _, _)
ReplaceAll(s, old, new) ==
    IF s = <<>> THEN <<>>
    ELSE IF HasPrefix(s, old) THEN new \o ReplaceAll(Drop(s, Len(old)), old, new)
    ELSE <<s[1]>> \o ReplaceAll(Tail(s), old, new)

\* strings.Join(xs, sep)
RECURSIVE Join(_, _)
Join(xs, sep) ==
    IF xs = <<>> THEN <<>>
    ELSE IF Len(xs) = 1 THEN xs[1]
    ELSE xs[1] \o sep \o Join(Tail(xs), sep)

\* n spaces
RECURSIVE Spaces(_)
Spaces(n) == IF n <= 0 THEN <<>> ELSE <<" ">> \o Spaces(n - 1)

\* The decimal digits of a natural number
RECURSIVE Digits(_)
Digits(n) ==
    LET d == <<"0", "1", "2", "3", "4", "5", "6", "7", "8", "9">>[(n % 10) + 1]
    IN  IF n < 10 THEN <<d>> ELSE Digits(n \div 10) \o <<d>>

\* Go's string comparison a < b: byte-wise lexicographic.
RECURSIVE StrLess(_, _)
StrLess(a, b) ==
    IF b = <<>> THEN FALSE
    ELSE IF a = <<>> THEN TRUE
    ELSE IF a[1] # b[1] THEN CodePoint(a[1]) < CodePoint(b[1])
    ELSE StrLess(Tail(a), Tail(b))

\* sort.Strings(x): ascending, by insertion.
RECURSIVE InsertSorted(_, _)
InsertSorted(x, sorted) ==
    IF sorted = <<>> THEN <<x>>
    ELSE IF StrLess(x, sorted[1]) THEN <<x>> \o sorted
    ELSE <<sorted[1]>> \o InsertSorted(x, Tail(sorted))

RECURSIVE SortStringsRec(_)
SortStringsRec(xs) ==
    IF xs = <<>> THEN <<>>
    ELSE InsertSorted(xs[1], SortStringsRec(Tail(xs)))

SortStringsNone(xs) == xs

SortStrings(xs) == SortStringsRec(xs)

\* The orders in which a range over a Go map with key set K may visit it.
IterationOrders(K) ==
    {o \in [1..Cardinality(K) -> K] : \A k \in K : \E i \in DOMAIN o : o[i] = k}

----------------------------------------------------------------------------
(* extractHostPort *)

\* Bound: the longest port mapping string drawn.
MaxPortLen == 7

PortRunes == {"8", ":", "/"}

PortMappings == StringsUpTo(PortRunes, MaxPortLen)

\* portMapping = strings.Split(portMapping, "/")[0]
StripProtocolLast(p) ==
    LET i == LastIndexRune(p, "/") IN IF i = 0 THEN p ELSE Take(p, i - 1)

StripProtocol(p) == Split(p, "/")[1]

\* switch len(parts) { case 1: parts[0]; case 2: parts[0]; case 3: parts[1] }
SelectHostPortFirst(ps) ==
    IF Len(ps) \in {1, 2, 3} THEN ps[1] ELSE <<>>

SelectHostPort(ps) ==
    CASE Len(ps) = 1 -> ps[1]
      [] Len(ps) = 2 -> ps[1]
      [] Len(ps) = 3 -> ps[2]
      [] OTHER       -> <<>>

extractHostPort(p) == SelectHostPort(Split(StripProtocol(p), ":"))

InitHostPort ==
    /\ pc = "strip"
    /\ portArg \in PortMappings
    /\ portMapping = portArg
    /\ parts = <<>>
    /\ hostPort = <<>>
    /\ IdleImage /\ IdleExtract /\ IdleClean /\ IdleManifest /\ IdleReplace /\ IdleBuild /\ IdleSquare /\ IdleFnpack /\ IdleValue

HostPortStrip ==
    /\ pc = "strip"
    /\ portMapping' = StripProtocol(portMapping)
    /\ pc' = "split"
    /\ UNCHANGED <<portArg, parts, hostPort>>
    /\ UNCHANGED <<imageVars, extractVars, cleanVars, manifestVars, replaceVars, buildVars, squareVars, fnpackVars, valueVars>>

HostPortSplit ==
    /\ pc = "split"
    /\ parts' = Split(portMapping, ":")
    /\ pc' = "select"
    /\ UNCHANGED <<portArg, portMapping, hostPort>>
    /\ UNCHANGED <<imageVars, extractVars, cleanVars, manifestVars, replaceVars, buildVars, squareVars, fnpackVars, valueVars>>

HostPortSelect ==
    /\ pc = "select"
    /\ hostPort' = SelectHostPort(parts)
    /\ pc' = "done"
    /\ UNCHANGED <<portArg, portMapping, parts>>
    /\ UNCHANGED <<imageVars, extractVars, cleanVars, manifestVars, replaceVars, buildVars, squareVars, fnpackVars, valueVars>>

NextHostPort == HostPortStrip \/ HostPortSplit \/ HostPortSelect

SpecHostPort == InitHostPort /\ [][NextHostPort]_vars

----------------------------------------------------------------------------
(* Claims about extractHostPort *)

\* C3: extractHostPort is total; with the protocol suffix removed, a
\* remainder without ':' is the port, a remainder "h:c" yields h, a remainder
\* "ip:h:c" yields h, and a remainder with three or more ':' yields "".
C3_HostPortByTokenCount ==
    pc = "done" =>
        LET n == CountRune(portMapping, ":") IN
        /\ n = 0 => hostPort = portMapping
        /\ n = 1 => /\ NoRune(hostPort, ":")
                    /\ \E c \in {Drop(portMapping, Len(hostPort) + 1)} :
                           /\ NoRune(c, ":")
                           /\ portMapping = hostPort \o <<":">> \o c
        /\ n = 2 => /\ NoRune(hostPort, ":")
                    /\ \E k \in 0..Len(portMapping) :
                           /\ NoRune(Take(portMapping, k), ":")
                           /\ Take(Drop(portMapping, k), Len(hostPort) + 2)
                                  = <<":">> \o hostPort \o <<":">>
        /\ n >= 3 => hostPort = <<>>

C3_Witness ==
    /\ pc = "done"
    /\ CountRune(portMapping, ":") = 2
    /\ hostPort = <<"8", "8">>
    /\ ContainsRune(portArg, "/")

\* C4 as claimed: the part that is split on ':' is everything preceding the
\* last '/' of the port mapping (the whole string when it has no '/').
C4_Original_SplitPartPrecedesLastSlash ==
    pc \in {"split", "select", "done"} =>
        IF NoRune(portArg, "/") THEN portMapping = portArg
        ELSE \E suffix \in {Drop(portArg, Len(portMapping) + 1)} :
                 /\ NoRune(suffix, "/")
                 /\ portArg = portMapping \o <<"/">> \o suffix

\* C4 as amended: the part that is split on ':' is everything preceding the
\* first '/' of the port mapping (the whole string when it has no '/').
C4_SplitPartPrecedesFirstSlash ==
    pc \in {"split", "select", "done"} =>
        /\ NoRune(portMapping, "/")
        /\ \/ portMapping = portArg
           \/ Take(portArg, Len(portMapping) + 1) = portMapping \o <<"/">>

C4_Witness ==
    /\ pc = "split"
    /\ CountRune(portArg, "/") = 2
    /\ ContainsRune(portMapping, ":")

----------------------------------------------------------------------------
(* extractImageInfo *)

\* Bound: the longest image reference drawn.
MaxImageLen == 7

ImageRunes == {"a", ":", "/"}

ImageRefs == StringsUpTo(ImageRunes, MaxImageLen)

\* if idx := strings.LastIndex(image, ":"); idx != -1 {
\*     if !strings.Contains(image[idx:], "/") { image = image[:idx] } }
StripTagAlways(img) ==
    LET idx == LastIndexRune(img, ":")
    IN  IF idx # 0 THEN Take(img, idx - 1) ELSE img

StripTag(img) ==
    LET idx == LastIndexRune(img, ":")
    IN  IF idx # 0 /\ ~ContainsRune(Drop(img, idx - 1), "/")
        THEN Take(img, idx - 1)
        ELSE img

\* switch len(parts) { case 1: ...; case 2: ...; default: ... }
SelectImageInfo(ps) ==
    CASE Len(ps) = 1 -> [org |-> ps[1], name |-> ps[1]]
      [] Len(ps) = 2 -> [org |-> ps[1], name |-> ps[2]]
      [] OTHER       -> [org |-> ps[Len(ps) - 1], name |-> ps[Len(ps)]]

extractImageInfo(img) ==
    IF img = <<>> THEN [org |-> <<>>, name |-> <<>>]
    ELSE SelectImageInfo(Split(StripTag(img), "/"))

InitImage ==
    /\ pc = "empty"
    /\ imageArg \in ImageRefs
    /\ image = imageArg
    /\ imageParts = <<>>
    /\ imageInfo = <<>>
    /\ IdleHostPort /\ IdleExtract /\ IdleClean /\ IdleManifest /\ IdleReplace /\ IdleBuild /\ IdleSquare /\ IdleFnpack /\ IdleValue

ImageEmpty ==
    /\ pc = "empty"
    /\ image = <<>>
    /\ imageInfo' = [org |-> <<>>, name |-> <<>>]
    /\ pc' = "done"
    /\ UNCHANGED <<imageArg, image, imageParts>>
    /\ UNCHANGED <<hostPortVars, extractVars, cleanVars, manifestVars, replaceVars, buildVars, squareVars, fnpackVars, valueVars>>

ImageNonEmpty ==
    /\ pc = "empty"
    /\ image # <<>>
    /\ pc' = "tag"
    /\ UNCHANGED <<imageVars, extractVars, cleanVars, manifestVars, replaceVars, buildVars, squareVars, fnpackVars, valueVars>>
    /\ UNCHANGED <<hostPortVars, extractVars, cleanVars, manifestVars, replaceVars, buildVars, squareVars, fnpackVars, valueVars>>

ImageStripTag ==
    /\ pc = "tag"
    /\ image' = StripTag(image)
    /\ pc' = "split"
    /\ UNCHANGED <<imageArg, imageParts, imageInfo>>
    /\ UNCHANGED <<hostPortVars, extractVars, cleanVars, manifestVars, replaceVars, buildVars, squareVars, fnpackVars, valueVars>>

ImageSplit ==
    /\ pc = "split"
    /\ imageParts' = Split(image, "/")
    /\ pc' = "select"
    /\ UNCHANGED <<imageArg, image, imageInfo>>
    /\ UNCHANGED <<hostPortVars, extractVars, cleanVars, manifestVars, replaceVars, buildVars, squareVars, fnpackVars, valueVars>>

ImageSelect ==
    /\ pc = "select"
    /\ imageInfo' = SelectImageInfo(imageParts)
    /\ pc' = "done"
    /\ UNCHANGED <<imageArg, image, imageParts>>
    /\ UNCHANGED <<hostPortVars, extractVars, cleanVars, manifestVars, replaceVars, buildVars, squareVars, fnpackVars, valueVars>>

NextImage ==
    ImageEmpty \/ ImageNonEmpty \/ ImageStripTag \/ ImageSplit \/ ImageSelect

SpecImage == InitImage /\ [][NextImage]_vars

----------------------------------------------------------------------------
(* Claims about extractImageInfo *)

\* The positions of the colons of s that no '/' and no further ':' follows:
\* at most one, the colon that starts a trailing ":tag".
TagColons(s) ==
    {k \in 1..Len(s) :
        /\ s[k] = ":"
        /\ NoRune(Drop(s, k), "/")
        /\ NoRune(Drop(s, k), ":")}

\* s is a / b, or ends in / a / b, with no '/' in a and b
EndsInSegments(s, a, b) ==
    /\ NoRune(a, "/") /\ NoRune(b, "/")
    /\ Len(s) >= Len(a) + Len(b) + 1
    /\ Drop(s, Len(s) - Len(a) - Len(b) - 1) = a \o <<"/">> \o b

\* C5: extractImageInfo returns ("","") for the empty reference; otherwise it
\* strips the trailing ":tag" (keeping a colon that a '/' follows) and
\* returns (seg, seg) for one segment, (first, second) for two, and the last
\* two segments for three or more.
C5_ImageInfoBySegments ==
    pc = "done" =>
        IF imageArg = <<>>
        THEN imageInfo = [org |-> <<>>, name |-> <<>>]
        ELSE /\ \A k \in TagColons(imageArg) : image = Take(imageArg, k - 1)
             /\ TagColons(imageArg) = {} => image = imageArg
             /\ LET n == CountRune(image, "/") IN
                /\ n = 0 => imageInfo = [org |-> image, name |-> image]
                /\ n = 1 => /\ image = imageInfo.org \o <<"/">> \o imageInfo.name
                            /\ EndsInSegments(image, imageInfo.org, imageInfo.name)
                /\ n >= 2 =>
                       /\ EndsInSegments(image, imageInfo.org, imageInfo.name)
                       /\ Len(image) > Len(imageInfo.org) + Len(imageInfo.name) + 1
                       /\ image[Len(image) - Len(imageInfo.org)
                                    - Len(imageInfo.name) - 1] = "/"

C5_Witness ==
    /\ pc = "done"
    /\ imageArg = <<"a", ":", "a", "/", "a", ":", "a">>
    /\ imageInfo = [org |-> <<"a", ":", "a">>, name |-> <<"a">>]

----------------------------------------------------------------------------
(* ExtractVariables *)

\* Bound: the most services a descriptor declares.
MaxServices == 3

ServiceNameChoices == {<<"a">>, <<"a", "b">>, <<"B">>, <<"b">>}

\* Service records as yaml.Unmarshal fills them (only the fields read).
ServiceChoices ==
    { [Image |-> <<>>, ContainerName |-> <<>>, Ports |-> <<>>],
      [Image |-> <<"a", "/", "b", ":", "1">>, ContainerName |-> <<"c">>,
       Ports |-> << <<"8", ":", "9">> >>],
      [Image |-> <<"b">>, ContainerName |-> <<>>,
       Ports |-> << <<"1", ":", "7", ":", "9", "/", "t">>, <<"8">> >>] }

\* The services sections drawn: up to MaxServices entries, names distinct
\* (yaml.v3 rejects a mapping that defines a key twice).
ComposeDecls ==
    UNION { {decl \in [1..n -> [name : ServiceNameChoices, service : ServiceChoices]] :
                \A i, j \in 1..n : i # j => decl[i].name # decl[j].name} :
            n \in 0..MaxServices }

\* yaml.Unmarshal into map[string]Service
UnmarshalServices(decl) ==
    [n \in {decl[i].name : i \in DOMAIN decl} |->
        decl[CHOOSE i \in DOMAIN decl : decl[i].name = n].service]

EmptyVariables ==
    [ServiceName |-> <<>>, ContainerName |-> <<>>, FirstPort |-> <<>>,
     ImageOrg |-> <<>>, ImageName |-> <<>>]

\* if firstService.ContainerName != "" { ... } else { ... }
ContainerNameDeclared(firstServiceName, firstService) ==
    firstService.ContainerName

ContainerNameOf(firstServiceName, firstService) ==
    IF firstService.ContainerName # <<>>
    THEN firstService.ContainerName
    ELSE firstServiceName

\* if len(firstService.Ports) > 0 { vars.FirstPort = extractHostPort(Ports[0]) }
FirstPortOf(firstService) ==
    IF Len(firstService.Ports) > 0
    THEN extractHostPort(firstService.Ports[1])
    ELSE <<>>

InitExtract ==
    /\ pc = "parse"
    /\ composeDecl \in ComposeDecls
    /\ Services = <<>>
    /\ serviceNames = <<>>
    /\ Variables = EmptyVariables
    /\ IdleHostPort /\ IdleImage /\ IdleClean /\ IdleManifest /\ IdleReplace /\ IdleBuild /\ IdleSquare /\ IdleFnpack /\ IdleValue

\* ParseComposeContent: the services section becomes a map
ParseServices ==
    /\ pc = "parse"
    /\ Services' = UnmarshalServices(composeDecl)
    /\ pc' = "len"
    /\ UNCHANGED <<composeDecl, serviceNames, Variables>>
    /\ UNCHANGED <<hostPortVars, imageVars, cleanVars, manifestVars, replaceVars, buildVars, squareVars, fnpackVars, valueVars>>

\* if len(compose.Services) == 0 { return vars }
ExtractNoServices ==
    /\ pc = "len"
    /\ DOMAIN Services = {}
    /\ pc' = "done"
    /\ UNCHANGED extractVars
    /\ UNCHANGED <<hostPortVars, imageVars, cleanVars, manifestVars, replaceVars, buildVars, squareVars, fnpackVars, valueVars>>

\* for name := range compose.Services { serviceNames = append(...) }
ExtractCollectNames ==
    /\ pc = "len"
    /\ DOMAIN Services # {}
    /\ \E order \in IterationOrders(DOMAIN Services) : serviceNames' = order
    /\ pc' = "sort"
    /\ UNCHANGED <<composeDecl, Services, Variables>>
    /\ UNCHANGED <<hostPortVars, imageVars, cleanVars, manifestVars, replaceVars, buildVars, squareVars, fnpackVars, valueVars>>

\* sort.Strings(serviceNames)
ExtractSortNames ==
    /\ pc = "sort"
    /\ serviceNames' = SortStrings(serviceNames)
    /\ pc' = "fill"
    /\ UNCHANGED <<composeDecl, Services, Variables>>
    /\ UNCHANGED <<hostPortVars, imageVars, cleanVars, manifestVars, replaceVars, buildVars, squareVars, fnpackVars, valueVars>>

\* firstServiceName := serviceNames[0] ... return vars
ExtractFill ==
    /\ pc = "fill"
    /\ LET firstServiceName == serviceNames[1]
           firstService == Services[firstServiceName]
           info == extractImageInfo(firstService.Image)
       IN  Variables' =
               [ServiceName |-> firstServiceName,
                ContainerName |-> ContainerNameOf(firstServiceName, firstService),
                FirstPort |-> FirstPortOf(firstService),
                ImageOrg |-> info.org,
                ImageName |-> info.name]
    /\ pc' = "done"
    /\ UNCHANGED <<composeDecl, Services, serviceNames>>
    /\ UNCHANGED <<hostPortVars, imageVars, cleanVars, manifestVars, replaceVars, buildVars, squareVars, fnpackVars, valueVars>>

NextExtract ==
    \/ ParseServices
    \/ ExtractNoServices
    \/ ExtractCollectNames
    \/ ExtractSortNames
    \/ ExtractFill

SpecExtract == InitExtract /\ [][NextExtract]_vars

----------------------------------------------------------------------------
(* Claims about ExtractVariables *)

\* a sorts at or before b in byte-wise lexicographic order: a is a prefix
\* of b, or at the first position where they differ a has the smaller byte.
LexLeq(a, b) ==
    \/ Len(a) <= Len(b) /\ Take(b, Len(a)) = a
    \/ \E i \in 1..Len(a) :
           /\ i <= Len(b)
           /\ Take(a, i - 1) = Take(b, i - 1)
           /\ CodePoint(a[i]) < CodePoint(b[i])

DeclaredNames == {composeDecl[i].name : i \in DOMAIN composeDecl}

\* C1: ServiceName is the declared service name that sorts first byte-wise,
\* whatever the order of declaration; with no services all five Variables
\* are empty.
C1_ServiceNameSortsFirst ==
    pc = "done" =>
        IF composeDecl = <<>>
        THEN Variables = EmptyVariables
        ELSE /\ Variables.ServiceName \in DeclaredNames
             /\ \A n \in DeclaredNames : LexLeq(Variables.ServiceName, n)

C1_Witness ==
    /\ pc = "done"
    /\ Len(composeDecl) = 3
    /\ composeDecl[1].name = <<"b">>
    /\ composeDecl[2].name = <<"a", "b">>
    /\ composeDecl[3].name = <<"B">>
    /\ Variables.ServiceName = <<"B">>

\* C2: with at least one service, ContainerName is the selected service's
\* container_name when that is non-empty and the selected service name
\* otherwise.
C2_ContainerNameOrServiceName ==
    pc = "done" /\ composeDecl # <<>> =>
        \E i \in DOMAIN composeDecl :
            /\ composeDecl[i].name = Variables.ServiceName
            /\ composeDecl[i].service.ContainerName # <<>>
                   => Variables.ContainerName = composeDecl[i].service.ContainerName
            /\ composeDecl[i].service.ContainerName = <<>>
                   => Variables.ContainerName = Variables.ServiceName

C2_Witness ==
    /\ pc = "done"
    /\ DOMAIN Services = {<<"a">>, <<"a", "b">>}
    /\ Variables.ServiceName = <<"a">>
    /\ Services[<<"a">>].ContainerName = <<>>
    /\ Services[<<"a", "b">>].ContainerName = <<"c">>
    /\ Variables.ContainerName = <<"a">>

----------------------------------------------------------------------------
(* CleanComposeContent *)

\* Bound: the most top-level entries a descriptor text holds.
MaxTopKeys == 3

KeyXFnpack == <<"x", "-", "f", "n", "p", "a", "c", "k">>
KeyServices == <<"s", "e", "r", "v", "i", "c", "e", "s">>
KeyNetworks == <<"n", "e", "t", "w", "o", "r", "k", "s">>
KeyVolumes == <<"v", "o", "l", "u", "m", "e", "s">>
KeyVersion == <<"v", "e", "r", "s", "i", "o", "n">>

TopKeyChoices == {KeyXFnpack, KeyServices, KeyNetworks, KeyVolumes, KeyVersion}

\* Values a top-level key holds: a scalar, or a mapping that itself has an
\* "x-fnpack" key (which is not the top-level one).
ScalarValue == [kind |-> "scalar", text |-> <<"1">>, keys |-> {}]
MappingValue == [kind |-> "mapping", text |-> <<>>, keys |-> {KeyXFnpack}]

TopValueChoices == {ScalarValue, MappingValue}

\* A descriptor text, as far as yaml reads it: its top-level entries in the
\* order written, and whether it carries comments (which parsing drops).
ComposeTexts ==
    [entries : UNION {[1..n -> [key : TopKeyChoices, value : TopValueChoices]] :
                         n \in 0..MaxTopKeys},
     comments : BOOLEAN]

TextKeys(text) == {text.entries[i].key : i \in DOMAIN text.entries}

\* yaml.v3 fails on a mapping that defines a key twice.
Parseable(text) ==
    \A i, j \in DOMAIN text.entries :
        i # j => text.entries[i].key # text.entries[j].key

\* yaml.Unmarshal(data, &content) with content a ComposeFile: only the typed
\* fields are kept.
UnmarshalTyped(text) ==
    [k \in TextKeys(text) \cap {KeyXFnpack, KeyServices, KeyNetworks, KeyVolumes} |->
        text.entries[CHOOSE i \in DOMAIN text.entries : text.entries[i].key = k].value]

\* yaml.Unmarshal(data, &content) with content a map[string]interface{}
UnmarshalMap(text) ==
    [k \in TextKeys(text) |->
        text.entries[CHOOSE i \in DOMAIN text.entries : text.entries[i].key = k].value]

\* delete(content, key)
DeleteKey(m, key) == [k \in DOMAIN m \ {key} |-> m[k]]

\* yaml.Marshal(content): one entry per key, in yaml.v3's key order (the
\* code-point order for keys that first differ in a letter), no comments.
MarshalMap(m) ==
    LET order == SortStrings(CHOOSE o \in IterationOrders(DOMAIN m) : TRUE)
    IN  [entries |-> [i \in 1..Len(order) |-> [key |-> order[i], value |-> m[order[i]]]],
         comments |-> FALSE]

CleanComposeContent(text) == MarshalMap(DeleteKey(UnmarshalMap(text), KeyXFnpack))

InitClean ==
    /\ pc = "unmarshal"
    /\ data \in ComposeTexts
    /\ content = <<>>
    /\ cleanData = <<>>
    /\ IdleHostPort /\ IdleImage /\ IdleExtract /\ IdleManifest /\ IdleReplace /\ IdleBuild /\ IdleSquare /\ IdleFnpack /\ IdleValue

\* if err := yaml.Unmarshal(data, &content); err != nil { return nil, err }
CleanUnmarshalError ==
    /\ pc = "unmarshal"
    /\ ~Parseable(data)
    /\ pc' = "failed"
    /\ UNCHANGED cleanVars
    /\ UNCHANGED <<hostPortVars, imageVars, extractVars, manifestVars, replaceVars, buildVars, squareVars, fnpackVars, valueVars>>

CleanUnmarshal ==
    /\ pc = "unmarshal"
    /\ Parseable(data)
    /\ content' = UnmarshalMap(data)
    /\ pc' = "delete"
    /\ UNCHANGED <<data, cleanData>>
    /\ UNCHANGED <<hostPortVars, imageVars, extractVars, manifestVars, replaceVars, buildVars, squareVars, fnpackVars, valueVars>>

\* delete(content, "x-fnpack")
CleanDelete ==
    /\ pc = "delete"
    /\ content' = DeleteKey(content, KeyXFnpack)
    /\ pc' = "marshal"
    /\ UNCHANGED <<data, cleanData>>
    /\ UNCHANGED <<hostPortVars, imageVars, extractVars, manifestVars, replaceVars, buildVars, squareVars, fnpackVars, valueVars>>

\* cleanData, err := yaml.Marshal(content); return cleanData, nil
CleanMarshal ==
    /\ pc = "marshal"
    /\ cleanData' = MarshalMap(content)
    /\ pc' = "done"
    /\ UNCHANGED <<data, content>>
    /\ UNCHANGED <<hostPortVars, imageVars, extractVars, manifestVars, replaceVars, buildVars, squareVars, fnpackVars, valueVars>>

NextClean == CleanUnmarshalError \/ CleanUnmarshal \/ CleanDelete \/ CleanMarshal

SpecClean == InitClean /\ [][NextClean]_vars

----------------------------------------------------------------------------
(* Claims about CleanComposeContent *)

ValueAt(text, key) ==
    text.entries[CHOOSE i \in DOMAIN text.entries : text.entries[i].key = key].value

\* C6: for a parseable descriptor the top-level keys of the cleaned text are
\* the input's keys minus "x-fnpack", every remaining key keeps its value,
\* and cleaning the cleaned text again returns it unchanged.
C6_CleanKeepsAllButExtension ==
    pc = "done" =>
        /\ Parseable(cleanData)
        /\ TextKeys(cleanData) = TextKeys(data) \ {KeyXFnpack}
        /\ \A k \in TextKeys(cleanData) : ValueAt(cleanData, k) = ValueAt(data, k)
        /\ CleanComposeContent(cleanData) = cleanData

C6_Witness ==
    /\ pc = "done"
    /\ TextKeys(data) = {KeyXFnpack, KeyServices, KeyVersion}
    /\ data.entries[1].key = KeyXFnpack
    /\ ValueAt(data, KeyServices) = MappingValue
    /\ Len(cleanData.entries) = 2

----------------------------------------------------------------------------
(* ReplaceVariables *)

TokServiceName == <<"$", "{", "S", "E", "R", "V", "I", "C", "E", "_", "N", "A", "M", "E", "}">>
TokContainerName == <<"$", "{", "C", "O", "N", "T", "A", "I", "N", "E", "R", "_", "N", "A", "M", "E", "}">>
TokFirstPort == <<"$", "{", "F", "I", "R", "S", "T", "_", "P", "O", "R", "T", "}">>

\* The orders in which the range over the replacements map may visit the
\* three placeholders.
PlaceholderOrders ==
    {o \in [1..3 -> {"ServiceName", "ContainerName", "FirstPort"}] :
        \A i, j \in 1..3 : i # j => o[i] # o[j]}

PlaceholderOf(field) ==
    CASE field = "ServiceName"   -> TokServiceName
      [] field = "ContainerName" -> TokContainerName
      [] field = "FirstPort"     -> TokFirstPort

\* ReplaceVariables, visiting the replacements map in the given order
ReplaceVariablesIn(text, v, order) ==
    LET r1 == ReplaceAll(text, PlaceholderOf(order[1]), v[order[1]])
        r2 == ReplaceAll(r1, PlaceholderOf(order[2]), v[order[2]])
    IN  ReplaceAll(r2, PlaceholderOf(order[3]), v[order[3]])

\* What ReplaceVariables(text, v) may return
ReplaceOutcomes(text, v) ==
    {ReplaceVariablesIn(text, v, o) : o \in PlaceholderOrders}

----------------------------------------------------------------------------
(* GenerateManifest: tables and helpers *)

K_appname == <<"a", "p", "p", "n", "a", "m", "e">>
K_version == <<"v", "e", "r", "s", "i", "o", "n">>
K_display_name == <<"d", "i", "s", "p", "l", "a", "y", "_", "n", "a", "m", "e">>
K_desc == <<"d", "e", "s", "c">>
K_arch == <<"a", "r", "c", "h">>
K_source == <<"s", "o", "u", "r", "c", "e">>
K_maintainer == <<"m", "a", "i", "n", "t", "a", "i", "n", "e", "r">>
K_maintainer_url == <<"m", "a", "i", "n", "t", "a", "i", "n", "e", "r", "_", "u", "r", "l">>
K_distributor == <<"d", "i", "s", "t", "r", "i", "b", "u", "t", "o", "r">>
K_distributor_url == <<"d", "i", "s", "t", "r", "i", "b", "u", "t", "o", "r", "_", "u", "r", "l">>
K_os_min_ver == <<"o", "s", "_", "m", "i", "n", "_", "v", "e", "r">>
K_beta == <<"b", "e", "t", "a">>
K_reloadui == <<"r", "e", "l", "o", "a", "d", "u", "i">>
K_desktop_uidir == <<"d", "e", "s", "k", "t", "o", "p", "_", "u", "i", "d", "i", "r">>
K_desktop_applaunchname == <<"d", "e", "s", "k", "t", "o", "p", "_", "a", "p", "p", "l", "a", "u", "n", "c", "h", "n", "a", "m", "e">>
K_changelog == <<"c", "h", "a", "n", "g", "e", "l", "o", "g">>
K_ctl_stop == <<"c", "t", "l", "_", "s", "t", "o", "p">>
K_checkport == <<"c", "h", "e", "c", "k", "p", "o", "r", "t">>
K_install_type == <<"i", "n", "s", "t", "a", "l", "l", "_", "t", "y", "p", "e">>
K_service_port == <<"s", "e", "r", "v", "i", "c", "e", "_", "p", "o", "r", "t">>
K_desktop_appname == <<"d", "e", "s", "k", "t", "o", "p", "_", "a", "p", "p", "n", "a", "m", "e">>

ManifestDefaults ==
    [k \in {K_arch, K_source, K_desktop_uidir, K_version} |->
        CASE k = K_arch          -> <<"x", "8", "6", "_", "6", "4">>
          [] k = K_source        -> <<"t", "h", "i", "r", "d", "p", "a", "r", "t", "y">>
          [] k = K_desktop_uidir -> <<"u", "i">>
          [] k = K_version       -> <<"1", ".", "0", ".", "0">>]

ManifestFieldOrder ==
    <<K_appname, K_version, K_display_name, K_desc, K_arch, K_source,
      K_maintainer, K_maintainer_url, K_distributor, K_distributor_url,
      K_os_min_ver, K_beta, K_reloadui, K_desktop_uidir,
      K_desktop_applaunchname, K_changelog, K_ctl_stop, K_checkport,
      K_install_type, K_service_port>>

DotApplication == <<".", "A", "p", "p", "l", "i", "c", "a", "t", "i", "o", "n">>

\* The column the values are aligned at
FieldWidth == 16

\* Manifest values as yaml decodes them into interface{}
StringValue(str) == [type |-> "string", str |-> str, num |-> 0, frac |-> <<>>, bool |-> FALSE]
IntValue(n) == [type |-> "int", str |-> <<>>, num |-> n, frac |-> <<>>, bool |-> FALSE]
FloatValue(n, frac) == [type |-> "float64", str |-> <<>>, num |-> n, frac |-> frac, bool |-> FALSE]
BoolValue(b) == [type |-> "bool", str |-> <<>>, num |-> 0, frac |-> <<>>, bool |-> b]
NilValue == [type |-> "nil", str |-> <<>>, num |-> 0, frac |-> <<>>, bool |-> FALSE]

\* fmt.Sprintf("%v", v) for a non-negative int, and for a non-negative
\* float64 below 1e21 given by its whole part and its fraction digits (none
\* when the value is whole: 1.0 prints as 1)
FormatNumber(v) ==
    IF v.type = "float64" /\ v.frac # <<>>
    THEN Digits(v.num) \o <<".">> \o v.frac
    ELSE Digits(v.num)

formatManifestValue(value) ==
    CASE value.type = "string" -> value.str
      [] value.type \in {"int", "float64"} -> FormatNumber(value)
      [] value.type = "bool" -> IF value.bool THEN <<"y", "e", "s">> ELSE <<"n", "o">>
      [] OTHER -> <<"<", "n", "i", "l", ">">>

\* fmt.Sprintf("%-16s= %s", key, value): the width counts runes
PadFormat(key, value) ==
    key \o Spaces(FieldWidth - Len(key)) \o <<"=", " ">> \o value

formatManifestLine(key, value) ==
    IF ByteLen(key) < FieldWidth
    THEN PadFormat(key, value)
    ELSE key \o <<" ", "=", " ">> \o value

----------------------------------------------------------------------------
(* GenerateManifest *)

\* Bound: the most keys an extension-block manifest holds.
MaxManifestKeys == 3

\* A key of six three-byte runes (18 bytes) and a short key outside the
\* field order
K_cjk == <<"U+540D", "U+540D", "U+540D", "U+540D", "U+540D", "U+540D">>
K_zz == <<"z", "z">>

ManifestKeyChoices ==
    {K_appname, K_version, K_service_port, K_beta, K_desktop_applaunchname,
     K_desktop_appname, K_cjk, K_zz}

ManifestValueChoices(key) ==
    CASE key = K_appname ->
             {StringValue(<<"a", "p", "p">>), StringValue(TokServiceName),
              StringValue(<<>>)}
      [] key = K_version -> {StringValue(<<"1", ".", "2", ".", "3">>), FloatValue(1, <<>>)}
      [] key = K_service_port -> {IntValue(8080)}
      [] key = K_beta -> {BoolValue(TRUE), BoolValue(FALSE)}
      [] key = K_desktop_applaunchname -> {StringValue(<<"x", ".", "A", "p", "p">>)}
      [] key = K_desktop_appname -> {StringValue(<<"o", "l", "d">>)}
      [] key = K_cjk -> {StringValue(<<"v">>)}
      [] key = K_zz ->
             {NilValue,
              StringValue(TokContainerName \o <<"$", "{", "O", "T", "H", "E", "R", "}">>)}

ManifestChoices ==
    UNION { {m \in [D -> UNION {ManifestValueChoices(k) : k \in D}] :
                \A k \in D : m[k] \in ManifestValueChoices(k)} :
            D \in {D \in SUBSET ManifestKeyChoices : Cardinality(D) <= MaxManifestKeys} }

\* Variables as ExtractVariables returns them: for no service; for a service
\* web with an image and a port; for a service web whose container_name is
\* the text ${FIRST_PORT} and that has no image; for a service db with
\* neither port nor image.
VariablesChoices ==
    { EmptyVariables,
      [ServiceName |-> <<"w", "e", "b">>, ContainerName |-> <<"w", "e", "b">>, FirstPort |-> <<"8", "0">>,
       ImageOrg |-> <<"o", "r", "g">>, ImageName |-> <<"i", "m", "g">>],
      [ServiceName |-> <<"w", "e", "b">>, ContainerName |-> TokFirstPort, FirstPort |-> <<"8", "0">>,
       ImageOrg |-> <<>>, ImageName |-> <<>>],
      [ServiceName |-> <<"d", "b">>, ContainerName |-> <<"d", "b">>, FirstPort |-> <<>>,
       ImageOrg |-> <<>>, ImageName |-> <<>>] }

\* result[key] = value
MapSet(m, key, value) ==
    [k \in DOMAIN m \cup {key} |-> IF k = key THEN value ELSE m[k]]

\* Lines 54-77: the defaults derived from the Variables
ServiceNameDefaults(r, v) ==
    IF v.ServiceName # <<>>
    THEN MapSet(MapSet(MapSet(r, K_appname, v.ServiceName),
                       K_display_name, v.ServiceName),
                K_desktop_applaunchname, v.ServiceName \o DotApplication)
    ELSE r

ImageOrgDefaults(r, v) ==
    IF v.ImageOrg # <<>>
    THEN MapSet(MapSet(r, K_maintainer, v.ImageOrg), K_distributor, v.ImageOrg)
    ELSE r

DescDefault(r, v) ==
    IF v.ImageName # <<>> THEN MapSet(r, K_desc, v.ImageName)
    ELSE IF v.ServiceName # <<>> THEN MapSet(r, K_desc, v.ServiceName)
    ELSE r

ServicePortDefault(r, v) ==
    IF v.FirstPort # <<>> THEN MapSet(r, K_service_port, v.FirstPort) ELSE r

ApplyVariableDefaults(r, v) ==
    ServicePortDefault(DescDefault(ImageOrgDefaults(ServiceNameDefaults(r, v), v), v), v)

\* result[key] = strValue
OverrideKeyKeepDefault(r, key, strValue) ==
    IF key \in DOMAIN r THEN r ELSE MapSet(r, key, strValue)

OverrideKey(r, key, strValue) == MapSet(r, key, strValue)

\* Lines 89-97: desktop_applaunchname from the resolved appname
SynthesizeNothing(r, m) == r

SynthesizeLaunchName(r, m) ==
    IF /\ K_desktop_applaunchname \notin DOMAIN m
       /\ K_desktop_appname \notin DOMAIN m
       /\ K_appname \in DOMAIN r
       /\ r[K_appname] # <<>>
    THEN MapSet(r, K_desktop_applaunchname, r[K_appname] \o DotApplication)
    ELSE r

\* Lines 104-109: the keys of the field order that have a non-empty value
OrderedKeysWithEmpty(r) ==
    SelectSeq(ManifestFieldOrder, LAMBDA k : k \in DOMAIN r)

OrderedKeys(r) ==
    SelectSeq(ManifestFieldOrder, LAMBDA k : k \in DOMAIN r /\ r[k] # <<>>)

\* Lines 113-117: the keys left for the sorted tail
RemainingKeySet(r, added) == {k \in DOMAIN r : k \notin added /\ r[k] # <<>>}

FormatLines(keys, r) == [i \in 1..Len(keys) |-> formatManifestLine(keys[i], r[keys[i]])]

InitManifest ==
    /\ pc = "defaults"
    /\ manifest \in ManifestChoices
    /\ pending = DOMAIN manifest
    /\ Variables \in VariablesChoices
    /\ result = <<>>
    /\ lines = <<>>
    /\ addedKeys = {}
    /\ remainingKeys = <<>>
    /\ manifestText = <<>>
    /\ previousText = <<>>
    /\ composeDecl = <<>> /\ Services = <<>> /\ serviceNames = <<>>
    /\ IdleHostPort /\ IdleImage /\ IdleClean /\ IdleReplace /\ IdleBuild /\ IdleSquare /\ IdleFnpack /\ IdleValue

\* for key, defaultValue := range ManifestDefaults { result[key] = defaultValue }
ManifestStaticDefaults ==
    /\ pc = "defaults"
    /\ result' = ManifestDefaults
    /\ pc' = "vardefaults"
    /\ UNCHANGED <<previousText, manifest, pending, lines, addedKeys, remainingKeys, manifestText>>
    /\ UNCHANGED <<hostPortVars, imageVars, extractVars, cleanVars, replaceVars, buildVars, squareVars, fnpackVars, valueVars>>

ManifestVariableDefaults ==
    /\ pc = "vardefaults"
    /\ result' = ApplyVariableDefaults(result, Variables)
    /\ pc' = "overrides"
    /\ UNCHANGED <<previousText, manifest, pending, lines, addedKeys, remainingKeys, manifestText>>
    /\ UNCHANGED <<hostPortVars, imageVars, extractVars, cleanVars, replaceVars, buildVars, squareVars, fnpackVars, valueVars>>

\* Lines 79-87: the range over the manifest visits one key not yet visited;
\* its value is formatted and substituted, ReplaceVariables visiting its
\* replacements map in an order of its own
ManifestOverrideKey ==
    /\ pc = "overrides"
    /\ \E key \in pending, order \in PlaceholderOrders :
           /\ result' = OverrideKey(result, key,
                  ReplaceVariablesIn(formatManifestValue(manifest[key]), Variables, order))
           /\ pending' = pending \ {key}
    /\ UNCHANGED <<previousText, pc, manifest, lines, addedKeys, remainingKeys, manifestText>>
    /\ UNCHANGED <<hostPortVars, imageVars, extractVars, cleanVars, replaceVars, buildVars, squareVars, fnpackVars, valueVars>>

ManifestOverridesDone ==
    /\ pc = "overrides"
    /\ pending = {}
    /\ pc' = "launchname"
    /\ UNCHANGED manifestVars
    /\ UNCHANGED <<hostPortVars, imageVars, extractVars, cleanVars, replaceVars, buildVars, squareVars, fnpackVars, valueVars>>

ManifestLaunchName ==
    /\ pc = "launchname"
    /\ result' = SynthesizeLaunchName(result, manifest)
    /\ pc' = "ordered"
    /\ UNCHANGED <<previousText, manifest, pending, lines, addedKeys, remainingKeys, manifestText>>
    /\ UNCHANGED <<hostPortVars, imageVars, extractVars, cleanVars, replaceVars, buildVars, squareVars, fnpackVars, valueVars>>

ManifestOrderedFields ==
    /\ pc = "ordered"
    /\ lines' = FormatLines(OrderedKeys(result), result)
    /\ addedKeys' = {OrderedKeys(result)[i] : i \in 1..Len(OrderedKeys(result))}
    /\ pc' = "remaining"
    /\ UNCHANGED <<previousText, manifest, pending, result, remainingKeys, manifestText>>
    /\ UNCHANGED <<hostPortVars, imageVars, extractVars, cleanVars, replaceVars, buildVars, squareVars, fnpackVars, valueVars>>

\* Lines 111-122: the other keys, collected in map order, sorted, appended
ManifestRemainingFields ==
    /\ pc = "remaining"
    /\ \E order \in IterationOrders(RemainingKeySet(result, addedKeys)) :
           /\ remainingKeys' = SortStrings(order)
           /\ lines' = lines \o FormatLines(SortStrings(order), result)
    /\ pc' = "join"
    /\ UNCHANGED <<previousText, manifest, pending, result, addedKeys, manifestText>>
    /\ UNCHANGED <<hostPortVars, imageVars, extractVars, cleanVars, replaceVars, buildVars, squareVars, fnpackVars, valueVars>>

\* return strings.Join(lines, "\n") + "\n"
ManifestJoin ==
    /\ pc = "join"
    /\ manifestText' = Join(lines, <<"\n">>) \o <<"\n">>
    /\ pc' = "done"
    /\ UNCHANGED <<previousText, manifest, pending, result, lines, addedKeys, remainingKeys>>
    /\ UNCHANGED <<hostPortVars, imageVars, extractVars, cleanVars, replaceVars, buildVars, squareVars, fnpackVars, valueVars>>

\* A second call of GenerateManifest with the same manifest and Variables:
\* result and lines are locals, made afresh by the call
ManifestCallAgain ==
    /\ pc = "done"
    /\ previousText = <<>>
    /\ previousText' = manifestText
    /\ pending' = DOMAIN manifest
    /\ result' = <<>>
    /\ lines' = <<>>
    /\ addedKeys' = {}
    /\ remainingKeys' = <<>>
    /\ manifestText' = <<>>
    /\ pc' = "defaults"
    /\ UNCHANGED manifest
    /\ UNCHANGED <<hostPortVars, imageVars, extractVars, cleanVars, replaceVars, buildVars, squareVars, fnpackVars, valueVars>>

NextManifest ==
    \/ ManifestStaticDefaults
    \/ ManifestVariableDefaults
    \/ ManifestOverrideKey
    \/ ManifestOverridesDone
    \/ ManifestLaunchName
    \/ ManifestOrderedFields
    \/ ManifestRemainingFields
    \/ ManifestJoin
    \/ ManifestCallAgain

SpecManifest == InitManifest /\ [][NextManifest]_vars

----------------------------------------------------------------------------
(* Claims about GenerateManifest *)

\* The resolved value of a key: empty when the key has none
Resolved(k) == IF k \in DOMAIN result THEN result[k] ELSE <<>>

\* The default section 4.2 derives from the Variables for a key
VariableDefault(k, v) ==
    CASE k \in {K_appname, K_display_name} -> v.ServiceName
      [] k \in {K_maintainer, K_distributor} -> v.ImageOrg
      [] k = K_desc -> IF v.ImageName # <<>> THEN v.ImageName ELSE v.ServiceName
      [] k = K_service_port -> v.FirstPort

VariableDefaultKeys ==
    {K_appname, K_display_name, K_maintainer, K_distributor, K_desc, K_service_port}

\* C7: later wins. A key of the extension-block manifest resolves to its
\* explicit value, formatted and substituted; any other key with a default
\* derived from the Variables resolves to that default; any other key with a
\* static default resolves to the static default.
C7_LaterWins ==
    pc = "done" =>
        /\ \A k \in DOMAIN manifest :
               Resolved(k) \in ReplaceOutcomes(formatManifestValue(manifest[k]), Variables)
        /\ \A k \in VariableDefaultKeys \ DOMAIN manifest :
               Resolved(k) = VariableDefault(k, Variables)
        /\ K_arch \notin DOMAIN manifest =>
               Resolved(K_arch) = <<"x", "8", "6", "_", "6", "4">>
        /\ K_source \notin DOMAIN manifest => Resolved(K_source) = <<"t", "h", "i", "r", "d", "p", "a", "r", "t", "y">>
        /\ K_desktop_uidir \notin DOMAIN manifest => Resolved(K_desktop_uidir) = <<"u", "i">>
        /\ K_version \notin DOMAIN manifest => Resolved(K_version) = <<"1", ".", "0", ".", "0">>

C7_Witness ==
    /\ pc = "done"
    /\ DOMAIN manifest = {K_version, K_service_port, K_beta}
    /\ manifest[K_version] = FloatValue(1, <<>>)
    /\ manifest[K_beta] = BoolValue(FALSE)
    /\ Variables.FirstPort = <<"8", "0">>
    /\ result[K_version] = <<"1">>
    /\ result[K_service_port] = <<"8", "0", "8", "0">>
    /\ result[K_beta] = <<"n", "o">>
    /\ result[K_appname] = <<"w", "e", "b">>
    /\ result[K_arch] = <<"x", "8", "6", "_", "6", "4">>

LaunchNameSupplied ==
    K_desktop_applaunchname \in DOMAIN manifest \/ K_desktop_appname \in DOMAIN manifest

\* C8: with neither desktop_applaunchname nor desktop_appname supplied and a
\* non-empty resolved appname, the emitted desktop_applaunchname is the
\* resolved appname followed by ".Application"; with either supplied it is
\* the explicit desktop_applaunchname, or else the ServiceName default.
C8_LaunchNameFromResolvedAppname ==
    pc = "done" =>
        /\ ~LaunchNameSupplied /\ Resolved(K_appname) # <<>> =>
               /\ Resolved(K_desktop_applaunchname) = Resolved(K_appname) \o DotApplication
               /\ \E i \in DOMAIN lines :
                      lines[i] = K_desktop_applaunchname \o <<" ", "=", " ">>
                                     \o Resolved(K_appname) \o DotApplication
        /\ K_desktop_applaunchname \in DOMAIN manifest =>
               Resolved(K_desktop_applaunchname) \in
                   ReplaceOutcomes(formatManifestValue(manifest[K_desktop_applaunchname]),
                                   Variables)
        /\ K_desktop_applaunchname \notin DOMAIN manifest /\ LaunchNameSupplied =>
               Resolved(K_desktop_applaunchname) =
                   IF Variables.ServiceName # <<>>
                   THEN Variables.ServiceName \o DotApplication
                   ELSE <<>>

C8_Witness ==
    /\ pc = "done"
    /\ DOMAIN manifest = {K_appname}
    /\ manifest[K_appname] = StringValue(<<"a", "p", "p">>)
    /\ Variables.ServiceName = <<"w", "e", "b">>
    /\ result[K_desktop_applaunchname] = <<"a", "p", "p">> \o DotApplication

\* The keys with a non-empty resolved value
NonEmptyKeys == {k \in DOMAIN result : result[k] # <<>>}

InFieldOrder(k) == \E i \in DOMAIN ManifestFieldOrder : ManifestFieldOrder[i] = k

FieldIndex(k) == CHOOSE i \in DOMAIN ManifestFieldOrder : ManifestFieldOrder[i] = k

\* a is listed before b: both in the canonical sequence and a earlier there,
\* or only a in it, or neither in it and a lexicographically smaller
ListedBefore(a, b) ==
    /\ a # b
    /\ \/ InFieldOrder(a) /\ InFieldOrder(b) /\ FieldIndex(a) < FieldIndex(b)
       \/ InFieldOrder(a) /\ ~InFieldOrder(b)
       \/ ~InFieldOrder(a) /\ ~InFieldOrder(b) /\ LexLeq(a, b)

Rank(k) == 1 + Cardinality({j \in NonEmptyKeys : ListedBefore(j, k)})

\* C9: the output holds one line for each key with a non-empty resolved
\* value and no other line; the keys of the canonical sequence come first, in
\* that order, then the remaining keys in ascending lexicographic order.
C9_CanonicalThenSorted ==
    pc = "done" =>
        /\ Len(lines) = Cardinality(NonEmptyKeys)
        /\ \A k \in NonEmptyKeys : lines[Rank(k)] = formatManifestLine(k, result[k])
        /\ manifestText = Join(lines, <<"\n">>) \o <<"\n">>

C9_Witness ==
    /\ pc = "done"
    /\ DOMAIN manifest = {K_zz, K_cjk, K_appname}
    /\ manifest[K_appname] = StringValue(<<>>)
    /\ manifest[K_zz] # NilValue
    /\ Variables.ServiceName = <<"w", "e", "b">>
    /\ Variables.ImageOrg = <<>>
    /\ remainingKeys = <<K_zz, K_cjk>>
    /\ Len(lines) = 10

\* The keys of the output lines, in the order of the lines
EmittedKeys == OrderedKeys(result) \o remainingKeys

\* C10 as claimed: a key shorter than 16 characters is padded with spaces to
\* exactly 16 characters and followed by "= value"; a key of 16 or more
\* characters is followed by exactly one space, then "= value".
C10_KeyColumnOfSixteenCharacters ==
    pc = "done" =>
        \A i \in DOMAIN lines :
            LET key == EmittedKeys[i]
                value == result[key]
            IN  IF Len(key) < FieldWidth
                THEN /\ Len(lines[i]) = FieldWidth + 2 + Len(value)
                     /\ Take(lines[i], Len(key)) = key
                     /\ \A j \in (Len(key) + 1)..FieldWidth : lines[i][j] = " "
                     /\ Drop(lines[i], FieldWidth) = <<"=", " ">> \o value
                ELSE lines[i] = key \o <<" ", "=", " ">> \o value

\* C11: manifest generation is deterministic: two calls of GenerateManifest
\* with the same Variables and the same extension-block manifest return the
\* same text, whatever the order in which the maps are iterated.
C11_GenerateManifestDeterministic ==
    (pc = "done" /\ previousText # <<>>) => manifestText = previousText

----------------------------------------------------------------------------
(* ReplaceVariables, step by step *)

\* Bound: the most pieces a content is put together from.
MaxPieces == 3

TokOther == <<"$", "{", "O", "T", "H", "E", "R", "}">>

\* The pieces of a content: the three placeholders, an unrecognized
\* placeholder, plain text, and the two halves of a placeholder
ContentPieces ==
    {TokServiceName, TokContainerName, TokFirstPort, TokOther, <<"a">>,
     <<"$", "{", "S", "E", "R", "V", "I", "C", "E">>, <<"_", "N", "A", "M", "E", "}">>}

Contents == {Join(ps, <<>>) : ps \in StringsUpTo(ContentPieces, MaxPieces)}

PlaceholderFields == {"ServiceName", "ContainerName", "FirstPort"}

InitReplace ==
    /\ pc = "call"
    /\ replContent \in Contents
    /\ Variables \in VariablesChoices
    /\ replPending = {}
    /\ replResult = <<>>
    /\ replaced = <<>>
    /\ composeDecl = <<>> /\ Services = <<>> /\ serviceNames = <<>>
    /\ IdleHostPort /\ IdleImage /\ IdleClean /\ IdleManifest /\ IdleBuild /\ IdleSquare /\ IdleFnpack /\ IdleValue

\* replacements := map[string]string{...}; result := content
ReplaceBegin ==
    /\ pc = "call"
    /\ replPending' = PlaceholderFields
    /\ replResult' = replContent
    /\ pc' = "range"
    /\ UNCHANGED <<replContent, replaced>>
    /\ UNCHANGED <<hostPortVars, imageVars, extractVars, cleanVars, manifestVars, buildVars, squareVars, fnpackVars, valueVars>>

\* One iteration of the range over the replacements map: any placeholder
\* not yet visited may come next
ReplaceOne ==
    /\ pc = "range"
    /\ \E field \in replPending :
           /\ replResult' = ReplaceAll(replResult, PlaceholderOf(field), Variables[field])
           /\ replPending' = replPending \ {field}
    /\ UNCHANGED <<pc, replContent, replaced>>
    /\ UNCHANGED <<hostPortVars, imageVars, extractVars, cleanVars, manifestVars, buildVars, squareVars, fnpackVars, valueVars>>

\* return result
ReplaceReturn ==
    /\ pc = "range"
    /\ replPending = {}
    /\ replaced' = replResult
    /\ pc' = "done"
    /\ UNCHANGED <<replContent, replPending, replResult>>
    /\ UNCHANGED <<hostPortVars, imageVars, extractVars, cleanVars, manifestVars, buildVars, squareVars, fnpackVars, valueVars>>

NextReplace ==
    \/ ReplaceBegin
    \/ ReplaceOne
    \/ ReplaceReturn

SpecReplace == InitReplace /\ [][NextReplace]_vars

\* The content with every occurrence of the three placeholders, found left
\* to right in the content itself, replaced by its value and every other
\* rune kept
RECURSIVE Substituted(_, _)
Substituted(text, v) ==
    IF text = <<>> THEN <<>>
    ELSE IF HasPrefix(text, TokServiceName)
         THEN v.ServiceName \o Substituted(Drop(text, Len(TokServiceName)), v)
    ELSE IF HasPrefix(text, TokContainerName)
         THEN v.ContainerName \o Substituted(Drop(text, Len(TokContainerName)), v)
    ELSE IF HasPrefix(text, TokFirstPort)
         THEN v.FirstPort \o Substituted(Drop(text, Len(TokFirstPort)), v)
    ELSE <<text[1]>> \o Substituted(Tail(text), v)

\* C12: ReplaceVariables replaces every occurrence of exactly the three
\* tokens in the input text by ServiceName, ContainerName and FirstPort, and
\* leaves every other character of the input, unrecognized placeholders
\* included, unchanged.
C12_ReplacesTheTokensOfTheInput ==
    pc = "done" => replaced = Substituted(replContent, Variables)

----------------------------------------------------------------------------
(* Paths and the file system *)

\* A path is the sequence of its components; the working directory is the
\* empty path.  filepath.Clean on the components of a relative path: empty
\* and "." components go, ".." removes the component before it.
RECURSIVE CleanInto(_, _)
CleanInto(stack, rest) ==
    IF rest = <<>> THEN stack
    ELSE IF Head(rest) = <<>> \/ Head(rest) = <<".">>
         THEN CleanInto(stack, Tail(rest))
    ELSE IF /\ Head(rest) = <<".", ".">>
            /\ stack # <<>>
            /\ stack[Len(stack)] # <<".", ".">>
         THEN CleanInto(Take(stack, Len(stack) - 1), Tail(rest))
    ELSE CleanInto(Append(stack, Head(rest)), Tail(rest))

\* filepath.Join(dir, elem) for a cleaned relative dir
JoinPath(dir, elem) == CleanInto(<<>>, dir \o Split(elem, "/"))

\* filepath.Dir(path) for a cleaned relative path
DirOf(path) == IF path = <<>> THEN <<>> ELSE Take(path, Len(path) - 1)

DirEntry == [kind |-> "dir"]
FileEntry(body, perm) == [kind |-> "file", content |-> body, perm |-> perm]

IsDir(f, path) == path = <<>> \/ (path \in DOMAIN f /\ f[path].kind = "dir")
IsFile(f, path) == path \in DOMAIN f /\ f[path].kind = "file"

\* os.MkdirAll(path, 0755): fails when a component of the path is a file
CanMkdirAll(f, path) == \A k \in 1..Len(path) : ~IsFile(f, Take(path, k))

MkdirAll(f, path) ==
    [p \in DOMAIN f \cup {Take(path, k) : k \in 1..Len(path)} |->
        IF p \in DOMAIN f THEN f[p] ELSE DirEntry]

\* os.WriteFile(path, data, perm): fails when the path is a directory or its
\* parent is not one; perm is the mode of a file it creates, a file that
\* exists keeps its mode
CanWriteFile(f, path) == ~IsDir(f, path) /\ IsDir(f, DirOf(path))

WriteFile(f, path, body, perm) ==
    [p \in DOMAIN f \cup {path} |->
        IF p = path
        THEN FileEntry(body, IF IsFile(f, path) THEN f[path].perm ELSE perm)
        ELSE f[p]]

\* What a file operation may do: succeed, fail before it touches the file
\* system, or (a write) fail after the file was created or truncated
IOOutcomes == {"ok", "fails", "fails after open"}

TextContent(text) == [type |-> "text", text |-> text]
EmptyContent == TextContent(<<>>)

----------------------------------------------------------------------------
(* The generators of the default artifacts *)

\* A JSON text is given by its values in the order json.MarshalIndent
\* writes them: the fields of a struct in declaration order, a field marked
\* omitempty left out when it is empty.
JString(str) == [kind |-> "string", str |-> str]
JBool(b) == [kind |-> "bool", bool |-> b]
JArray(items) == [kind |-> "array", items |-> items]
JObject(members) == [kind |-> "object", members |-> members]
JMember(key, value) == [key |-> key, value |-> value]
JOmitEmpty(key, str) == IF str = <<>> THEN <<>> ELSE <<JMember(key, JString(str))>>

\* marshalJSON: the indented JSON text and a newline
marshalJSON(value) == [type |-> "json", json |-> value]

GeneratePrivilege(v) ==
    marshalJSON(JObject(
        <<JMember(<<"d", "e", "f", "a", "u", "l", "t", "s">>, JObject(<<JMember(<<"r", "u", "n", "-", "a", "s">>, JString(<<"p", "a", "c", "k", "a", "g", "e">>))>>))>>
        \o JOmitEmpty(<<"u", "s", "e", "r", "n", "a", "m", "e">>, v.ServiceName)
        \o JOmitEmpty(<<"g", "r", "o", "u", "p", "n", "a", "m", "e">>, v.ServiceName)))

GenerateResource(v) ==
    marshalJSON(JObject(
        <<JMember(<<"d", "o", "c", "k", "e", "r", "-", "p", "r", "o", "j", "e", "c", "t">>, JObject(
            <<JMember(<<"p", "r", "o", "j", "e", "c", "t", "s">>, JArray(
                <<JObject(<<JMember(<<"n", "a", "m", "e">>, JString(v.ServiceName)),
                            JMember(<<"p", "a", "t", "h">>, JString(<<"d", "o", "c", "k", "e", "r">>))>>)>>))>>))>>))

UIConfigEntryAllFields(title, icon, type, protocol, port, url, allUsers) ==
    JObject(<<JMember(<<"t", "i", "t", "l", "e">>, JString(title)),
              JMember(<<"i", "c", "o", "n">>, JString(icon)),
              JMember(<<"t", "y", "p", "e">>, JString(type)),
              JMember(<<"p", "r", "o", "t", "o", "c", "o", "l">>, JString(protocol)),
              JMember(<<"p", "o", "r", "t">>, JString(port)),
              JMember(<<"u", "r", "l">>, JString(url)),
              JMember(<<"a", "l", "l", "U", "s", "e", "r", "s">>, JBool(allUsers))>>)

UIConfigEntry(title, icon, type, protocol, port, url, allUsers) ==
    JObject(<<JMember(<<"t", "i", "t", "l", "e">>, JString(title)),
              JMember(<<"i", "c", "o", "n">>, JString(icon)),
              JMember(<<"t", "y", "p", "e">>, JString(type))>>
            \o JOmitEmpty(<<"p", "r", "o", "t", "o", "c", "o", "l">>, protocol)
            \o JOmitEmpty(<<"p", "o", "r", "t">>, port)
            \o <<JMember(<<"u", "r", "l">>, JString(url)),
                 JMember(<<"a", "l", "l", "U", "s", "e", "r", "s">>, JBool(allUsers))>>)

GenerateDefaultUIConfig(v) ==
    LET appEntry == v.ServiceName \o DotApplication
    IN  marshalJSON(JObject(
            <<JMember(<<".", "u", "r", "l">>, JObject(
                <<JMember(appEntry,
                          UIConfigEntry(v.ServiceName, <<"i", "m", "a", "g", "e", "s", "/", "i", "c", "o", "n", "_", "{", "0", "}", ".", "p", "n", "g">>, <<"u", "r", "l">>,
                                        <<"h", "t", "t", "p">>, v.FirstPort, <<"/">>, TRUE))>>))>>))

\* The default scripts: fixed shell templates, the main script filled in
\* from the Variables
ScriptContent(template, v) == [type |-> "script", template |-> template, vars |-> v]

GenerateMainScript(v) == ScriptContent(<<"m", "a", "i", "n">>, v)

LifecycleScriptNames == {<<"i", "n", "s", "t", "a", "l", "l">>, <<"s", "t", "a", "r", "t">>, <<"s", "t", "o", "p">>, <<"u", "p", "g", "r", "a", "d", "e">>}

GenerateLifecycleScripts == [name \in LifecycleScriptNames |-> ScriptContent(name, <<>>)]

----------------------------------------------------------------------------
(* The functions Build calls, as functions of their arguments *)

\* ExtractVariables(compose): the names are sorted, so the order in which
\* the services map is iterated does not show
ExtractVariables(services) ==
    IF DOMAIN services = {} THEN EmptyVariables
    ELSE LET names == SortStrings(CHOOSE o \in IterationOrders(DOMAIN services) : TRUE)
             firstServiceName == names[1]
             firstService == services[firstServiceName]
             info == extractImageInfo(firstService.Image)
         IN  [ServiceName |-> firstServiceName,
              ContainerName |-> ContainerNameOf(firstServiceName, firstService),
              FirstPort |-> FirstPortOf(firstService),
              ImageOrg |-> info.org,
              ImageName |-> info.name]

\* extractCustomFiles(xfnpack): every key but "manifest" that holds a string
extractCustomFiles(xfnpack) ==
    [key \in {k \in DOMAIN xfnpack : k # <<"m", "a", "n", "i", "f", "e", "s", "t">> /\ xfnpack[k].type = "string"} |->
        xfnpack[key].str]

\* The range over the manifest of GenerateManifest, ReplaceVariables
\* visiting its placeholders in the order orderOf[key] for the value of key
RECURSIVE ApplyOverrides(_, _, _, _, _)
ApplyOverrides(r, m, keys, v, orderOf) ==
    IF keys = {} THEN r
    ELSE LET key == CHOOSE k \in keys : TRUE
             strValue == ReplaceVariablesIn(formatManifestValue(m[key]), v, orderOf[key])
         IN  ApplyOverrides(OverrideKey(r, key, strValue), m, keys \ {key}, v, orderOf)

GenerateManifestIn(m, v, orderOf) ==
    LET r == SynthesizeLaunchName(
                 ApplyOverrides(ApplyVariableDefaults(ManifestDefaults, v),
                                m, DOMAIN m, v, orderOf), m)
        ordered == OrderedKeys(r)
        added == {ordered[i] : i \in DOMAIN ordered}
        rest == SortStrings(CHOOSE o \in IterationOrders(RemainingKeySet(r, added)) : TRUE)
    IN  Join(FormatLines(ordered, r) \o FormatLines(rest, r), <<"\n">>) \o <<"\n">>

\* The texts GenerateManifest(manifest, vars) may return
GenerateManifest(m, v) ==
    {GenerateManifestIn(m, v, orderOf) : orderOf \in [DOMAIN m -> PlaceholderOrders]}

GetManifestAppnameDefault(m, v) == v.ServiceName

GetManifestAppname(m, v) ==
    IF K_appname \in DOMAIN m THEN formatManifestValue(m[K_appname])
    ELSE v.ServiceName

\* hasFile(files, path)
hasFile(files, path) == path \in DOMAIN files

----------------------------------------------------------------------------
(* Images and squareImage *)

\* An image: its bounds (the corner min, the width dx and the height dy)
\* and the colour of each of its pixels, indexed from the corner.
Transparent == "transparent"
Colours == {Transparent, "red", "blue", "smoke"}
Opaque == {"red", "blue"}

Pixels(dx, dy) == (0..(dx - 1)) \X (0..(dy - 1))

NewImage(min, dx, dy, pix) == [min |-> min, dx |-> dx, dy |-> dy, pix |-> pix]

\* image.NewRGBA(image.Rect(0, 0, dx, dy)): every pixel zero, that is
\* transparent
NewRGBA(dx, dy) == NewImage(<<0, 0>>, dx, dy, [p \in Pixels(dx, dy) |-> Transparent])

\* src.At(x, y) for a point given in the coordinates of src
At(img, x, y) == img.pix[<<x - img.min[1], y - img.min[2]>>]

\* The Porter-Duff over operator of draw.Over on one pixel
Over(s, d) ==
    IF s = Transparent THEN d
    ELSE IF s \in Opaque \/ d = Transparent THEN s
    ELSE "blend"

\* draw.Draw(dst, r, src, sp, op) for r inside dst and the image of r
\* inside src: the pixel of r at (x, y) comes from src at sp + (x, y) - r.min
DrawOver(dst, rmin, rdx, rdy, src, sp) ==
    NewImage(dst.min, dst.dx, dst.dy,
        [p \in Pixels(dst.dx, dst.dy) |->
            IF /\ p[1] >= rmin[1] /\ p[1] < rmin[1] + rdx
               /\ p[2] >= rmin[2] /\ p[2] < rmin[2] + rdy
            THEN Over(At(src, sp[1] + p[1] - rmin[1], sp[2] + p[2] - rmin[2]), dst.pix[p])
            ELSE dst.pix[p]])

OffsetWhole(size, extent) == size - extent

Offset(size, extent) == (size - extent) \div 2

squareImage(src) ==
    LET srcWidth == src.dx
        srcHeight == src.dy
        size == IF srcHeight > srcWidth THEN srcHeight ELSE srcWidth
        dst == NewRGBA(size, size)
        offsetX == Offset(size, srcWidth)
        offsetY == Offset(size, srcHeight)
    IN  IF srcWidth = srcHeight THEN src
        ELSE DrawOver(dst, <<offsetX, offsetY>>, srcWidth, srcHeight, src, src.min)

\* imaging.Resize(src, width, height, imaging.Lanczos): an image of the
\* given size resampled from src; an empty image for an empty src
ResizeIcon(src, width, height) ==
    IF src.dx <= 0 \/ src.dy <= 0
    THEN [type |-> "png", dx |-> 0, dy |-> 0, from |-> src]
    ELSE [type |-> "png", dx |-> width, dy |-> height, from |-> src]

----------------------------------------------------------------------------
(* Build: the inputs *)

\* Bound: the most path-keyed entries an extension block holds.
MaxFileKeys == 2

\* Builder.OutputDir, which runBuild has created
OutputDir == <<<<"d", "i", "s", "t">>>>

BuildServiceChoices ==
    { <<>>,
      <<[name |-> <<"w", "e", "b">>,
         service |-> [Image |-> <<"o", "r", "g", "/", "i", "m", "g", ":", "1">>, ContainerName |-> <<>>,
                      Ports |-> <<<<"8", "0", ":", "8", "0">>>>]]>>,
      <<[name |-> <<"w", "e", "b">>,
         service |-> [Image |-> <<>>, ContainerName |-> TokFirstPort,
                      Ports |-> <<<<"8", "0", ":", "8", "0">>>>]]>> }

\* The manifest of the extension block; the empty one stands for a block
\* without a manifest
BuildManifestChoices ==
    { <<>>,
      K_appname :> StringValue(<<"a", "p", "p">>),
      K_appname :> StringValue(TokServiceName),
      K_appname :> StringValue(<<>>),
      K_appname :> IntValue(7) }

\* The path-keyed entries an extension block is drawn from
XFnpackEntries ==
    <<"c", "o", "n", "f", "i", "g", "/", "p", "r", "i", "v", "i", "l", "e", "g", "e">> :> StringValue(<<"u">>)
    @@ <<".", "/", "c", "o", "n", "f", "i", "g", "/", "p", "r", "i", "v", "i", "l", "e", "g", "e">> :> StringValue(TokContainerName)
    @@ <<"c", "o", "n", "f", "i", "g", "/", "r", "e", "s", "o", "u", "r", "c", "e">> :> IntValue(5)
    @@ <<"c", "m", "d", "/", "m", "a", "i", "n">> :> StringValue(<<"r", "u", "n">>)
    @@ <<".", "/", "c", "m", "d", "/", "m", "a", "i", "n">> :> StringValue(<<"a", "l", "t">>)
    @@ <<".", ".", "/", "x">> :> StringValue(<<"o", "u", "t">>)
    @@ <<"a", "p", "p", "/", "u", "i", "/", "c", "o", "n", "f", "i", "g">> :> StringValue(<<"{", "}">>)
    @@ <<".", "/", "m", "a", "n", "i", "f", "e", "s", "t">> :> StringValue(<<"x">>)
    @@ <<"d", "o", "c", "s", "/", "r", "e", "a", "d", "m", "e">> :> StringValue(TokServiceName)
    @@ <<"L", "I", "C", "E", "N", "S", "E">> :> StringValue(<<"m", "i", "t">>)

MapValue(m) == [type |-> "map", map |-> m]

XFnpackChoices ==
    { [key \in D \cup (IF DOMAIN m = {} THEN {} ELSE {<<"m", "a", "n", "i", "f", "e", "s", "t">>}) |->
          IF key = <<"m", "a", "n", "i", "f", "e", "s", "t">> THEN MapValue(m) ELSE XFnpackEntries[key]] :
      m \in BuildManifestChoices,
      D \in {D \in SUBSET DOMAIN XFnpackEntries : Cardinality(D) <= MaxFileKeys} }

Descriptors == [services : BuildServiceChoices, xfnpack : XFnpackChoices]

\* The descriptor as the text yaml reads: an x-fnpack entry when the block
\* has content, a services entry when there are services, and comments
DescriptorText(desc) ==
    [entries |->
        (IF DOMAIN desc.xfnpack = {} THEN <<>>
         ELSE <<[key |-> KeyXFnpack,
                 value |-> [kind |-> "mapping", text |-> <<>>,
                            keys |-> DOMAIN desc.xfnpack]]>>)
        \o (IF desc.services = <<>> THEN <<>>
            ELSE <<[key |-> KeyServices,
                    value |-> [kind |-> "mapping", text |-> <<>>,
                               keys |-> {desc.services[i].name :
                                            i \in DOMAIN desc.services}]]>>),
     comments |-> TRUE]

\* ParseComposeContent(data)
ParseComposeContent(desc) ==
    [Manifest |-> IF <<"m", "a", "n", "i", "f", "e", "s", "t">> \in DOMAIN desc.xfnpack
                  THEN desc.xfnpack[<<"m", "a", "n", "i", "f", "e", "s", "t">>].map ELSE <<>>,
     Files |-> extractCustomFiles(desc.xfnpack),
     Services |-> UnmarshalServices(desc.services)]

ComposeYaml == <<"c", "o", "m", "p", "o", "s", "e", ".", "y", "a", "m", "l">>
DockerComposeYaml == <<"d", "o", "c", "k", "e", "r", "-", "c", "o", "m", "p", "o", "s", "e", ".", "y", "a", "m", "l">>

DescriptorFile(desc) == [kind |-> "file", holds |-> "descriptor", descriptor |-> desc]
GarbageFile == [kind |-> "file", holds |-> "garbage"]
ImageFile(img) == [kind |-> "file", holds |-> "image", img |-> img]
Directory == [kind |-> "dir"]

SourceIcon == NewImage(<<0, 0>>, 2, 1, [p \in Pixels(2, 1) |-> "red"])

\* What the input directory holds besides the descriptor: nothing, or a
\* directory a.png and an image B.PNG
IconFileChoices ==
    { <<>>, <<"a", ".", "p", "n", "g">> :> Directory @@ <<"B", ".", "P", "N", "G">> :> ImageFile(SourceIcon) }

PlainDescriptor ==
    [services |-> <<[name |-> <<"d", "b">>,
                     service |-> [Image |-> <<>>, ContainerName |-> <<>>,
                                  Ports |-> <<>>]]>>,
     xfnpack |-> <<>>]

\* The input directories: a compose.yaml with each descriptor; and a few
\* with docker-compose.yaml, with both names, with a descriptor yaml cannot
\* parse, and with none.  A directory may be searchable without being
\* listable.
InputDirs ==
    { [files |-> ComposeYaml :> DescriptorFile(desc) @@ icons, listable |-> TRUE] :
        desc \in Descriptors, icons \in IconFileChoices }
    \cup
    { [files |-> named @@ <<"B", ".", "P", "N", "G">> :> ImageFile(SourceIcon), listable |-> l] :
        l \in BOOLEAN,
        named \in { DockerComposeYaml :> DescriptorFile(PlainDescriptor),
                    ComposeYaml :> DescriptorFile(PlainDescriptor)
                        @@ DockerComposeYaml :> GarbageFile,
                    ComposeYaml :> GarbageFile,
                    ComposeYaml :> Directory,
                    <<>> } }

----------------------------------------------------------------------------
(* Build *)

\* GetAppDir()
GetAppDir == JoinPath(OutputDir, AppName)

\* The directories CreateDirectories makes below the app directory
AppDirs == <<<<"a", "p", "p", "/", "d", "o", "c", "k", "e", "r">>, <<"a", "p", "p", "/", "u", "i", "/", "i", "m", "a", "g", "e", "s">>, <<"c", "m", "d">>, <<"c", "o", "n", "f", "i", "g">>, <<"w", "i", "z", "a", "r", "d">>>>

\* The icons CopyIcons writes
Icons ==
    <<[width |-> 64, height |-> 64, destPath |-> <<"I", "C", "O", "N", ".", "P", "N", "G">>],
      [width |-> 256, height |-> 256, destPath |-> <<"I", "C", "O", "N", "_", "2", "5", "6", ".", "P", "N", "G">>],
      [width |-> 64, height |-> 64, destPath |-> <<"a", "p", "p", "/", "u", "i", "/", "i", "m", "a", "g", "e", "s", "/", "i", "c", "o", "n", "-", "6", "4", ".", "p", "n", "g">>],
      [width |-> 256, height |-> 256, destPath |-> <<"a", "p", "p", "/", "u", "i", "/", "i", "m", "a", "g", "e", "s", "/", "i", "c", "o", "n", "-", "2", "5", "6", ".", "p", "n", "g">>]>>

ErrParse == "failed to parse compose"
ErrDirectories == "failed to create directories"
ErrWrite == "failed to write files"
ErrIcons == "failed to process icons"

\* Build returns err: no later step runs
ReturnError(err) == pc' = "returned" /\ buildErr' = err

\* os.WriteFile(path, body, perm) followed by "if err != nil { return ... }":
\* on success the function goes on at next
WriteOrReturn(path, body, perm, io, err, next) ==
    IF CanWriteFile(fs, path) /\ io = "ok"
    THEN /\ fs' = WriteFile(fs, path, body, perm)
         /\ pc' = next
         /\ UNCHANGED buildErr
    ELSE /\ fs' = IF CanWriteFile(fs, path) /\ io = "fails after open"
                  THEN WriteFile(fs, path, EmptyContent, perm)
                  ELSE fs
         /\ ReturnError(err)

InitBuild ==
    /\ pc = "parseCompose"
    /\ inputDir \in InputDirs
    /\ Compose = <<>>
    /\ Variables = EmptyVariables
    /\ AppName = <<>>
    /\ fs = (OutputDir :> DirEntry)
    /\ pendingKeys = {}
    /\ loopIndex = 0
    /\ srcImg = <<>>
    /\ buildErr = ""
    /\ skipFnpack = FALSE
    /\ composeDecl = <<>> /\ Services = <<>> /\ serviceNames = <<>>
    /\ IdleHostPort /\ IdleImage /\ IdleClean /\ IdleManifest /\ IdleReplace /\ IdleSquare /\ IdleFnpack /\ IdleValue

\* The descriptor file parseCompose and CopyCompose settle on: compose.yaml
\* unless os.Stat finds no such file
composePath ==
    IF ComposeYaml \in DOMAIN inputDir.files THEN ComposeYaml ELSE DockerComposeYaml

\* Step 1: parseCompose
parseCompose ==
    /\ pc = "parseCompose"
    /\ \E io \in {"ok", "fails"} :
           IF /\ composePath \in DOMAIN inputDir.files
              /\ inputDir.files[composePath].kind = "file"
              /\ inputDir.files[composePath].holds = "descriptor"
              /\ io = "ok"
           THEN LET compose == ParseComposeContent(inputDir.files[composePath].descriptor)
                    variables == ExtractVariables(compose.Services)
                IN  /\ Compose' = compose
                    /\ Variables' = variables
                    /\ AppName' = GetManifestAppname(compose.Manifest, variables)
                    /\ loopIndex' = 1
                    /\ pc' = "CreateDirectories"
                    /\ UNCHANGED buildErr
           ELSE /\ ReturnError(ErrParse)
                /\ UNCHANGED <<Compose, Variables, AppName, loopIndex>>
    /\ UNCHANGED <<skipFnpack, inputDir, fs, pendingKeys, srcImg>>
    /\ UNCHANGED <<composeDecl, Services, serviceNames>>
    /\ UNCHANGED <<hostPortVars, imageVars, cleanVars, manifestVars, replaceVars, squareVars, fnpackVars, valueVars>>

\* Step 2: one iteration of the loop of CreateDirectories
CreateDirectories ==
    /\ pc = "CreateDirectories"
    /\ \E io \in {"ok", "fails"} :
           LET dir == JoinPath(GetAppDir, AppDirs[loopIndex])
           IN  IF CanMkdirAll(fs, dir) /\ io = "ok"
               THEN /\ fs' = MkdirAll(fs, dir)
                    /\ loopIndex' = loopIndex + 1
                    /\ pc' = IF loopIndex = Len(AppDirs)
                             THEN "WriteManifest" ELSE "CreateDirectories"
                    /\ UNCHANGED buildErr
               ELSE /\ ReturnError(ErrDirectories)
                    /\ UNCHANGED <<fs, loopIndex>>
    /\ UNCHANGED <<skipFnpack, inputDir, Compose, AppName, pendingKeys, srcImg>>
    /\ UNCHANGED <<hostPortVars, imageVars, extractVars, cleanVars, manifestVars, replaceVars, squareVars, fnpackVars, valueVars>>

\* Step 3, writeAllFiles: WriteManifest
WriteManifest ==
    /\ pc = "WriteManifest"
    /\ \E body \in GenerateManifest(Compose.Manifest, Variables), io \in IOOutcomes :
           WriteOrReturn(JoinPath(GetAppDir, <<"m", "a", "n", "i", "f", "e", "s", "t">>), TextContent(body), "0644",
                         io, ErrWrite, "WriteCustomFiles")
    /\ pendingKeys' = IF pc' = "returned" THEN pendingKeys ELSE DOMAIN Compose.Files
    /\ UNCHANGED <<skipFnpack, inputDir, Compose, AppName, loopIndex, srcImg>>
    /\ UNCHANGED <<hostPortVars, imageVars, extractVars, cleanVars, manifestVars, replaceVars, squareVars, fnpackVars, valueVars>>

\* One iteration of the range over the files of WriteCustomFiles
WriteCustomFiles ==
    /\ pc = "WriteCustomFiles"
    /\ \E filePath \in pendingKeys, order \in PlaceholderOrders,
          ioDir \in {"ok", "fails"}, io \in IOOutcomes :
           LET body == ReplaceVariablesIn(Compose.Files[filePath], Variables, order)
               fullPath == JoinPath(GetAppDir, filePath)
               parentDir == DirOf(fullPath)
               perm == IF HasPrefix(filePath, <<"c", "m", "d", "/">>) THEN "0755" ELSE "0644"
           IN  IF CanMkdirAll(fs, parentDir) /\ ioDir = "ok"
               THEN LET made == MkdirAll(fs, parentDir)
                    IN  IF CanWriteFile(made, fullPath) /\ io = "ok"
                        THEN /\ fs' = WriteFile(made, fullPath, TextContent(body), perm)
                             /\ pendingKeys' = pendingKeys \ {filePath}
                             /\ UNCHANGED <<pc, buildErr>>
                        ELSE /\ fs' = IF CanWriteFile(made, fullPath) /\ io = "fails after open"
                                      THEN WriteFile(made, fullPath, EmptyContent, perm)
                                      ELSE made
                             /\ ReturnError(ErrWrite)
                             /\ UNCHANGED pendingKeys
               ELSE /\ ReturnError(ErrWrite)
                    /\ UNCHANGED <<fs, pendingKeys>>
    /\ UNCHANGED <<skipFnpack, inputDir, Compose, AppName, loopIndex, srcImg>>
    /\ UNCHANGED <<hostPortVars, imageVars, extractVars, cleanVars, manifestVars, replaceVars, squareVars, fnpackVars, valueVars>>

\* The range is over: WriteCustomFiles returns nil
WriteCustomFilesDone ==
    /\ pc = "WriteCustomFiles"
    /\ pendingKeys = {}
    /\ pc' = "WriteConfigs.privilege"
    /\ UNCHANGED buildVars
    /\ UNCHANGED <<hostPortVars, imageVars, extractVars, cleanVars, manifestVars, replaceVars, squareVars, fnpackVars, valueVars>>

\* WriteConfigs: the privilege config, unless the files have it
WriteConfigsPrivilege ==
    /\ pc = "WriteConfigs.privilege"
    /\ IF ~hasFile(Compose.Files, <<"c", "o", "n", "f", "i", "g", "/", "p", "r", "i", "v", "i", "l", "e", "g", "e">>)
       THEN \E io \in IOOutcomes :
                WriteOrReturn(JoinPath(GetAppDir, <<"c", "o", "n", "f", "i", "g", "/", "p", "r", "i", "v", "i", "l", "e", "g", "e">>),
                              GeneratePrivilege(Variables), "0644",
                              io, ErrWrite, "WriteConfigs.resource")
       ELSE pc' = "WriteConfigs.resource" /\ UNCHANGED <<fs, buildErr>>
    /\ UNCHANGED <<skipFnpack, inputDir, Compose, AppName, pendingKeys, loopIndex, srcImg>>
    /\ UNCHANGED <<hostPortVars, imageVars, extractVars, cleanVars, manifestVars, replaceVars, squareVars, fnpackVars, valueVars>>

\* WriteConfigs: the resource config, unless the files have it
WriteConfigsResource ==
    /\ pc = "WriteConfigs.resource"
    /\ IF ~hasFile(Compose.Files, <<"c", "o", "n", "f", "i", "g", "/", "r", "e", "s", "o", "u", "r", "c", "e">>)
       THEN \E io \in IOOutcomes :
                WriteOrReturn(JoinPath(GetAppDir, <<"c", "o", "n", "f", "i", "g", "/", "r", "e", "s", "o", "u", "r", "c", "e">>),
                              GenerateResource(Variables), "0644",
                              io, ErrWrite, "WriteScript.main")
       ELSE pc' = "WriteScript.main" /\ UNCHANGED <<fs, buildErr>>
    /\ UNCHANGED <<skipFnpack, inputDir, Compose, AppName, pendingKeys, loopIndex, srcImg>>
    /\ UNCHANGED <<hostPortVars, imageVars, extractVars, cleanVars, manifestVars, replaceVars, squareVars, fnpackVars, valueVars>>

\* WriteScript: cmd/main, unless the files have it
WriteScriptMain ==
    /\ pc = "WriteScript.main"
    /\ IF ~hasFile(Compose.Files, <<"c", "m", "d", "/", "m", "a", "i", "n">>)
       THEN \E io \in IOOutcomes :
                WriteOrReturn(JoinPath(GetAppDir, <<"c", "m", "d", "/", "m", "a", "i", "n">>),
                              GenerateMainScript(Variables), "0755",
                              io, ErrWrite, "WriteScript.lifecycle")
       ELSE pc' = "WriteScript.lifecycle" /\ UNCHANGED <<fs, buildErr>>
    /\ pendingKeys' = IF pc' = "returned" THEN pendingKeys ELSE DOMAIN GenerateLifecycleScripts
    /\ UNCHANGED <<skipFnpack, inputDir, Compose, AppName, loopIndex, srcImg>>
    /\ UNCHANGED <<hostPortVars, imageVars, extractVars, cleanVars, manifestVars, replaceVars, squareVars, fnpackVars, valueVars>>

\* WriteScript: one iteration of the range over the lifecycle scripts
WriteScriptLifecycle ==
    /\ pc = "WriteScript.lifecycle"
    /\ \E name \in pendingKeys :
           /\ IF ~hasFile(Compose.Files, <<"c", "m", "d", "/">> \o name)
              THEN \E io \in IOOutcomes :
                       WriteOrReturn(JoinPath(GetAppDir, <<"c", "m", "d", "/">> \o name),
                                     GenerateLifecycleScripts[name], "0755",
                                     io, ErrWrite, "WriteScript.lifecycle")
              ELSE UNCHANGED <<pc, fs, buildErr>>
           /\ pendingKeys' = IF pc' = "returned" THEN pendingKeys ELSE pendingKeys \ {name}
    /\ UNCHANGED <<skipFnpack, inputDir, Compose, AppName, loopIndex, srcImg>>
    /\ UNCHANGED <<hostPortVars, imageVars, extractVars, cleanVars, manifestVars, replaceVars, squareVars, fnpackVars, valueVars>>

\* The range is over: WriteScript returns nil
WriteScriptDone ==
    /\ pc = "WriteScript.lifecycle"
    /\ pendingKeys = {}
    /\ pc' = "WriteUIConfig"
    /\ UNCHANGED buildVars
    /\ UNCHANGED <<hostPortVars, imageVars, extractVars, cleanVars, manifestVars, replaceVars, squareVars, fnpackVars, valueVars>>

\* WriteUIConfig: app/ui/config, unless the files have it
WriteUIConfig ==
    /\ pc = "WriteUIConfig"
    /\ IF ~hasFile(Compose.Files, <<"a", "p", "p", "/", "u", "i", "/", "c", "o", "n", "f", "i", "g">>)
       THEN \E io \in IOOutcomes :
                WriteOrReturn(JoinPath(GetAppDir, <<"a", "p", "p", "/", "u", "i", "/", "c", "o", "n", "f", "i", "g">>),
                              GenerateDefaultUIConfig(Variables), "0644",
                              io, ErrWrite, "CopyCompose")
       ELSE pc' = "CopyCompose" /\ UNCHANGED <<fs, buildErr>>
    /\ UNCHANGED <<skipFnpack, inputDir, Compose, AppName, pendingKeys, loopIndex, srcImg>>
    /\ UNCHANGED <<hostPortVars, imageVars, extractVars, cleanVars, manifestVars, replaceVars, squareVars, fnpackVars, valueVars>>

\* CopyCompose: the descriptor is read again, cleaned and written
CopyCompose ==
    /\ pc = "CopyCompose"
    /\ \E ioRead \in {"ok", "fails"}, io \in IOOutcomes :
           IF /\ composePath \in DOMAIN inputDir.files
              /\ inputDir.files[composePath].kind = "file"
              /\ inputDir.files[composePath].holds = "descriptor"
              /\ ioRead = "ok"
           THEN LET cleanContent ==
                        CleanComposeContent(
                            DescriptorText(inputDir.files[composePath].descriptor))
                IN  WriteOrReturn(JoinPath(GetAppDir, <<"a", "p", "p", "/", "d", "o", "c", "k", "e", "r", "/", "d", "o", "c", "k", "e", "r", "-", "c", "o", "m", "p", "o", "s", "e", ".", "y", "a", "m", "l">>),
                                  [type |-> "yaml", yaml |-> cleanContent], "0644",
                                  io, ErrWrite, "WriteLicense")
           ELSE ReturnError(ErrWrite) /\ UNCHANGED fs
    /\ UNCHANGED <<skipFnpack, inputDir, Compose, AppName, pendingKeys, loopIndex, srcImg>>
    /\ UNCHANGED <<hostPortVars, imageVars, extractVars, cleanVars, manifestVars, replaceVars, squareVars, fnpackVars, valueVars>>

\* WriteLicense: an empty LICENSE
WriteLicense ==
    /\ pc = "WriteLicense"
    /\ \E io \in IOOutcomes :
           WriteOrReturn(JoinPath(GetAppDir, <<"L", "I", "C", "E", "N", "S", "E">>), EmptyContent, "0644",
                         io, ErrWrite, "ProcessIcons")
    /\ UNCHANGED <<skipFnpack, inputDir, Compose, AppName, pendingKeys, loopIndex, srcImg>>
    /\ UNCHANGED <<hostPortVars, imageVars, extractVars, cleanVars, manifestVars, replaceVars, squareVars, fnpackVars, valueVars>>

\* strings.ToLower(s) and strings.HasSuffix(s, suffix)
UpperRunes ==
    <<"A", "B", "C", "D", "E", "F", "G", "H", "I", "J", "K", "L", "M",
      "N", "O", "P", "Q", "R", "S", "T", "U", "V", "W", "X", "Y", "Z">>

LowerRunes ==
    <<"a", "b", "c", "d", "e", "f", "g", "h", "i", "j", "k", "l", "m",
      "n", "o", "p", "q", "r", "s", "t", "u", "v", "w", "x", "y", "z">>

ToLower(s) ==
    [i \in 1..Len(s) |->
        IF \E k \in 1..Len(UpperRunes) : UpperRunes[k] = s[i]
        THEN LowerRunes[CHOOSE k \in 1..Len(UpperRunes) : UpperRunes[k] = s[i]]
        ELSE s[i]]

HasSuffix(s, suffix) ==
    Len(s) >= Len(suffix) /\ Drop(s, Len(s) - Len(suffix)) = suffix

\* os.ReadDir(dir): the names in the directory, sorted
ReadDir(dir) == SortStrings(CHOOSE o \in IterationOrders(DOMAIN dir.files) : TRUE)

IsPngName(name) == HasSuffix(ToLower(name), <<".", "p", "n", "g">>)

\* FindIcon: the entries that are no directory and end in .png, in the
\* order of the listing; FindIcon returns the first, or an error if none
FindIcon(dir) ==
    SelectSeq(ReadDir(dir), LAMBDA name : dir.files[name].kind # "dir" /\ IsPngName(name))

\* Step 4: ProcessIcons up to the call of CopyIcons
ProcessIcons ==
    /\ pc = "ProcessIcons"
    /\ \E ioList \in {"ok", "fails"}, ioOpen \in {"ok", "fails"} :
           IF ~inputDir.listable \/ ioList = "fails" \/ FindIcon(inputDir) = <<>>
           THEN /\ pc' = "returned"
                /\ buildErr' = "nil"
                /\ UNCHANGED <<srcImg, loopIndex>>
           ELSE LET iconFile == inputDir.files[FindIcon(inputDir)[1]]
                IN  IF iconFile.holds = "image" /\ ioOpen = "ok"
                    THEN /\ srcImg' = squareImage(iconFile.img)
                         /\ loopIndex' = 1
                         /\ pc' = "CopyIcons"
                         /\ UNCHANGED buildErr
                    ELSE /\ ReturnError(ErrIcons)
                         /\ UNCHANGED <<srcImg, loopIndex>>
    /\ UNCHANGED <<skipFnpack, inputDir, Compose, AppName, fs, pendingKeys>>
    /\ UNCHANGED <<hostPortVars, imageVars, extractVars, cleanVars, manifestVars, replaceVars, squareVars, fnpackVars, valueVars>>

\* One iteration of the loop of CopyIcons: resize and saveIcon (MkdirAll,
\* os.Create, png.Encode); after the last icon Build returns nil
CopyIcons ==
    /\ pc = "CopyIcons"
    /\ \E ioDir \in {"ok", "fails"}, io \in IOOutcomes :
           LET icon == Icons[loopIndex]
               resized == ResizeIcon(srcImg, icon.width, icon.height)
               destPath == JoinPath(GetAppDir, icon.destPath)
               parentDir == DirOf(destPath)
           IN  IF CanMkdirAll(fs, parentDir) /\ ioDir = "ok"
               THEN LET made == MkdirAll(fs, parentDir)
                    IN  IF CanWriteFile(made, destPath) /\ io = "ok"
                        THEN /\ fs' = WriteFile(made, destPath, resized, "0666")
                             /\ loopIndex' = loopIndex + 1
                             /\ pc' = IF loopIndex = Len(Icons) THEN "returned" ELSE "CopyIcons"
                             /\ buildErr' = IF loopIndex = Len(Icons) THEN "nil" ELSE buildErr
                        ELSE /\ fs' = IF CanWriteFile(made, destPath) /\ io = "fails after open"
                                      THEN WriteFile(made, destPath, EmptyContent, "0666")
                                      ELSE made
                             /\ ReturnError(ErrIcons)
                             /\ UNCHANGED loopIndex
               ELSE /\ ReturnError(ErrIcons)
                    /\ UNCHANGED <<fs, loopIndex>>
    /\ UNCHANGED <<skipFnpack, inputDir, Compose, AppName, pendingKeys, srcImg>>
    /\ UNCHANGED <<hostPortVars, imageVars, extractVars, cleanVars, manifestVars, replaceVars, squareVars, fnpackVars, valueVars>>

NextBuild ==
    \/ parseCompose
    \/ CreateDirectories
    \/ WriteManifest
    \/ WriteCustomFiles
    \/ WriteCustomFilesDone
    \/ WriteConfigsPrivilege
    \/ WriteConfigsResource
    \/ WriteScriptMain
    \/ WriteScriptLifecycle
    \/ WriteScriptDone
    \/ WriteUIConfig
    \/ CopyCompose
    \/ WriteLicense
    \/ ProcessIcons
    \/ CopyIcons

SpecBuild == InitBuild /\ [][NextBuild]_vars

----------------------------------------------------------------------------
(* Claims about Build *)

BuildSucceeded == pc = "returned" /\ buildErr = "nil"

\* The output paths, below the app directory, of the default artifacts
DefaultArtifacts ==
    {<<"c", "o", "n", "f", "i", "g", "/", "p", "r", "i", "v", "i", "l", "e", "g", "e">>, <<"c", "o", "n", "f", "i", "g", "/", "r", "e", "s", "o", "u", "r", "c", "e">>, <<"c", "m", "d", "/", "m", "a", "i", "n">>, <<"a", "p", "p", "/", "u", "i", "/", "c", "o", "n", "f", "i", "g">>}
    \cup {<<"c", "m", "d", "/">> \o name : name \in LifecycleScriptNames}

\* The keys of the extension block whose content is written to the output
\* path of the artifact
KeysWrittenTo(artifact) ==
    {key \in DOMAIN Compose.Files :
        JoinPath(GetAppDir, key) = JoinPath(GetAppDir, artifact)}

\* The file at the path below the app directory holds the substituted
\* content of one of the keys
HoldsUserContent(artifact, keys) ==
    LET path == JoinPath(GetAppDir, artifact)
    IN  /\ IsFile(fs, path)
        /\ \E key \in keys :
               fs[path].content \in
                   {TextContent(body) : body \in ReplaceOutcomes(Compose.Files[key], Variables)}

\* C13: user content always wins over generated defaults: whenever the
\* extension block has a path-keyed entry whose content is written to the
\* output path of a default artifact, then after a successful build the file
\* holds the user's template-substituted content (the default generator was
\* skipped for it).
C13_UserContentWins ==
    BuildSucceeded =>
        \A artifact \in DefaultArtifacts :
            KeysWrittenTo(artifact) # {} =>
                HoldsUserContent(artifact, KeysWrittenTo(artifact))

\* The file at the path below the app directory holds the body
Holds(path, body) ==
    /\ IsFile(fs, JoinPath(GetAppDir, path))
    /\ fs[JoinPath(GetAppDir, path)].content = body

\* The descriptor Build has parsed
ParsedDescriptor == inputDir.files[composePath].descriptor

\* The body is the descriptor with the extension block removed: a yaml
\* text with every top-level key of the descriptor but x-fnpack, each with
\* the value the descriptor gives it
IsCleanedDescriptor(body) ==
    /\ body.type = "yaml"
    /\ TextKeys(body.yaml) = TextKeys(DescriptorText(ParsedDescriptor)) \ {KeyXFnpack}
    /\ \A key \in TextKeys(body.yaml) :
           ValueAt(body.yaml, key) = ValueAt(DescriptorText(ParsedDescriptor), key)

\* C14: the manifest, the cleaned compose copy and the LICENSE file are
\* unconditional: after every successful build, whatever path-keyed entries
\* the extension block has, the file manifest holds the generated manifest
\* text, app/docker/docker-compose.yaml holds the descriptor with the
\* extension block removed, and LICENSE exists and is empty.
C14_ManifestComposeLicenseUnconditional ==
    BuildSucceeded =>
        /\ \E body \in GenerateManifest(Compose.Manifest, Variables) :
               Holds(<<"m", "a", "n", "i", "f", "e", "s", "t">>, TextContent(body))
        /\ IsFile(fs, JoinPath(GetAppDir, <<"a", "p", "p", "/", "d", "o", "c", "k", "e", "r", "/", "d", "o", "c", "k", "e", "r", "-", "c", "o", "m", "p", "o", "s", "e", ".", "y", "a", "m", "l">>))
        /\ IsCleanedDescriptor(fs[JoinPath(GetAppDir, <<"a", "p", "p", "/", "d", "o", "c", "k", "e", "r", "/", "d", "o", "c", "k", "e", "r", "-", "c", "o", "m", "p", "o", "s", "e", ".", "y", "a", "m", "l">>)].content)
        /\ Holds(<<"L", "I", "C", "E", "N", "S", "E">>, EmptyContent)

\* The input directory holds a descriptor and a PNG image
HoldsDescriptorAndImage ==
    /\ composePath \in DOMAIN inputDir.files
    /\ inputDir.files[composePath].kind = "file"
    /\ inputDir.files[composePath].holds = "descriptor"
    /\ \E name \in DOMAIN inputDir.files :
           inputDir.files[name].kind = "file" /\ inputDir.files[name].holds = "image"

\* The file at the path below the app directory is a PNG of the given size
HoldsIcon(path, width, height) ==
    /\ IsFile(fs, JoinPath(GetAppDir, path))
    /\ fs[JoinPath(GetAppDir, path)].content.type = "png"
    /\ fs[JoinPath(GetAppDir, path)].content.dx = width
    /\ fs[JoinPath(GetAppDir, path)].content.dy = height

\* The tree below the app directory is complete
CompleteTree ==
    /\ \A path \in {<<"m", "a", "n", "i", "f", "e", "s", "t">>, <<"c", "o", "n", "f", "i", "g", "/", "p", "r", "i", "v", "i", "l", "e", "g", "e">>, <<"c", "o", "n", "f", "i", "g", "/", "r", "e", "s", "o", "u", "r", "c", "e">>, <<"c", "m", "d", "/", "m", "a", "i", "n">>,
                    <<"a", "p", "p", "/", "u", "i", "/", "c", "o", "n", "f", "i", "g">>, <<"a", "p", "p", "/", "d", "o", "c", "k", "e", "r", "/", "d", "o", "c", "k", "e", "r", "-", "c", "o", "m", "p", "o", "s", "e", ".", "y", "a", "m", "l">>, <<"L", "I", "C", "E", "N", "S", "E">>}
                   \cup {<<"c", "m", "d", "/">> \o name : name \in LifecycleScriptNames} :
           IsFile(fs, JoinPath(GetAppDir, path))
    /\ HoldsIcon(<<"I", "C", "O", "N", ".", "P", "N", "G">>, 64, 64)
    /\ HoldsIcon(<<"a", "p", "p", "/", "u", "i", "/", "i", "m", "a", "g", "e", "s", "/", "i", "c", "o", "n", "-", "6", "4", ".", "p", "n", "g">>, 64, 64)
    /\ HoldsIcon(<<"I", "C", "O", "N", "_", "2", "5", "6", ".", "P", "N", "G">>, 256, 256)
    /\ HoldsIcon(<<"a", "p", "p", "/", "u", "i", "/", "i", "m", "a", "g", "e", "s", "/", "i", "c", "o", "n", "-", "2", "5", "6", ".", "p", "n", "g">>, 256, 256)

\* C15: after a successful Build on an input directory that holds a
\* descriptor and a PNG image, the tree below <output-dir>/<app-name>/ has
\* manifest, config/privilege, config/resource, cmd/main and every
\* lifecycle script, app/ui/config, app/docker/docker-compose.yaml, LICENSE
\* and the four icon files, 64x64 and 256x256.
C15_OutputTreeComplete ==
    (BuildSucceeded /\ HoldsDescriptorAndImage) => CompleteTree

\* No file of the output tree holds an encoded icon
NoIconWritten ==
    \A path \in DOMAIN fs : IsFile(fs, path) => fs[path].content.type # "png"

\* The input directory has no regular file whose lower-cased name ends in .png
ListsNoPng ==
    \A name \in DOMAIN inputDir.files :
        inputDir.files[name].kind = "dir" \/ ~HasSuffix(ToLower(name), <<".", "p", "n", "g">>)

\* C17: "no icon found" is the sole non-fatal outcome of the icon processor:
\* a build returns success without any icon file exactly when the input
\* directory has no regular file ending in .png (case-insensitive), and a
\* directory that cannot be read never leads to success.
C17_NoIconIsTheSoleNonFatalOutcome ==
    BuildSucceeded => (inputDir.listable /\ (NoIconWritten <=> ListsNoPng))

\* The descriptor of the input directory cannot be read or parsed
DescriptorUnusable ==
    \/ composePath \notin DOMAIN inputDir.files
    \/ inputDir.files[composePath].kind # "file"
    \/ inputDir.files[composePath].holds # "descriptor"

\* No regular file exists in the output tree
NoFileWritten == \A path \in DOMAIN fs : ~IsFile(fs, path)

\* C16: a failing build step aborts the build: Build returns an error when
\* the descriptor cannot be parsed or the input directory cannot be listed
\* for the icon, and after an error of a step nothing of a later step has
\* been written (parse: nothing at all, directories: no file, file writes:
\* no icon).
C16_FailureAbortsTheBuild ==
    pc = "returned" =>
        /\ DescriptorUnusable => buildErr = ErrParse
        /\ ~inputDir.listable => buildErr # "nil"
        /\ buildErr = ErrParse => DOMAIN fs = {OutputDir}
        /\ buildErr = ErrDirectories => NoFileWritten
        /\ buildErr = ErrWrite => NoIconWritten

----------------------------------------------------------------------------
(* squareImage *)

\* Bound: the longest side of a source image.
MaxSide == 3

\* Bounds().Min of a source image: the origin for a decoded file, another
\* point for a sub-image
ImageOrigins == {<<0, 0>>, <<1, 2>>, <<-1, 0>>}

\* The pixels of a source image of the given size
PixelPatterns(dx, dy) ==
    { [p \in Pixels(dx, dy) |-> "red"],
      [p \in Pixels(dx, dy) |-> IF (p[1] + p[2]) % 2 = 0 THEN "red" ELSE "blue"],
      [p \in Pixels(dx, dy) |-> IF p = <<0, 0>> THEN "smoke" ELSE Transparent],
      [p \in Pixels(dx, dy) |-> IF p = <<dx - 1, dy - 1>> THEN "blue" ELSE "smoke"],
      [p \in Pixels(dx, dy) |-> IF p[1] = 0 THEN "red" ELSE Transparent] }

\* The images a decoder returns: both sides are positive
SourceImages ==
    UNION { { NewImage(origin, dx, dy, pix) :
                  origin \in ImageOrigins, pix \in PixelPatterns(dx, dy) } :
            dx \in 1..MaxSide, dy \in 1..MaxSide }

InitSquare ==
    /\ pc = "call"
    /\ srcIcon \in SourceImages
    /\ squared = <<>>
    /\ IdleHostPort /\ IdleImage /\ IdleExtract /\ IdleClean /\ IdleManifest
    /\ IdleReplace /\ IdleBuild /\ IdleFnpack /\ IdleValue

SquareCall ==
    /\ pc = "call"
    /\ squared' = squareImage(srcIcon)
    /\ pc' = "done"
    /\ UNCHANGED srcIcon
    /\ UNCHANGED <<hostPortVars, imageVars, extractVars, cleanVars, manifestVars, replaceVars, buildVars, fnpackVars, valueVars>>

NextSquare == SquareCall

SpecSquare == InitSquare /\ [][NextSquare]_vars

\* C18: squareImage on a W x H source with W # H returns an S x S canvas,
\* S the larger of W and H, that has the source pixels at offset
\* ((S - W) div 2, (S - H) div 2) and transparent pixels everywhere else;
\* on a source with W = H it returns the source itself.
C18_SquareImageCentres ==
    pc = "done" =>
        LET W == srcIcon.dx
            H == srcIcon.dy
            S == IF W > H THEN W ELSE H
            left == (S - W) \div 2
            top == (S - H) \div 2
        IN  IF W = H
            THEN squared = srcIcon
            ELSE /\ squared.dx = S /\ squared.dy = S /\ squared.min = <<0, 0>>
                 /\ DOMAIN squared.pix = (0..(S - 1)) \X (0..(S - 1))
                 /\ \A x \in 0..(S - 1), y \in 0..(S - 1) :
                        squared.pix[<<x, y>>] =
                            IF /\ x >= left /\ x < left + W
                               /\ y >= top /\ y < top + H
                            THEN srcIcon.pix[<<x - left, y - top>>]
                            ELSE Transparent

\* A 2 x 3 source away from the origin with transparent pixels has been
\* squared: the offset (3 - 2) div 2 is 0
C18_Witness ==
    /\ pc = "done"
    /\ srcIcon.dx = 2 /\ srcIcon.dy = 3 /\ srcIcon.min = <<1, 2>>
    /\ srcIcon.pix[<<1, 0>>] = Transparent
    /\ squared.dx = 3
    /\ squared.pix[<<0, 1>>] = "red" /\ squared.pix[<<2, 1>>] = Transparent

----------------------------------------------------------------------------
(* RunFnpack and findFpkFile *)

\* Bound: the most entries the output directory holds before the packager
\* runs.
MaxStaleFiles == 2

\* Builder.AppName: plain names, the empty name, and a name with a rune
\* that filepath.Match reads as the start of a character class
FnpackAppNames == {<<"a", "p", "p">>, <<"b">>, <<>>, <<"a", "[">>}

\* The entries the output directory may hold from earlier runs
StaleFileChoices == {<<"a", "p", "p", "-", "1", ".", "f", "p", "k">>, <<"b", ".", "f", "p", "k">>, <<"a", ".", "f", "p", "k">>, <<"a", "p", "p", ".", "t", "x", "t">>}

\* What the packager leaves in its working directory for an app name
PackagerOutputs(appName) ==
    {{}, {appName \o <<".", "f", "p", "k">>}, {appName \o <<"-", "1", ".", "f", "p", "k">>}}

\* filepath.Match(pattern, name) for a well-formed pattern of literal runes
\* and "*", and a name without separator
RECURSIVE Match(_, _)
Match(pattern, name) ==
    IF pattern = <<>> THEN name = <<>>
    ELSE IF Head(pattern) = "*"
         THEN \E k \in 0..Len(name) : Match(Tail(pattern), Drop(name, k))
         ELSE /\ name # <<>>
              /\ Head(name) = Head(pattern)
              /\ Match(Tail(pattern), Tail(name))

\* filepath.ErrBadPattern: a "[" that no "]" closes (the names of the model
\* have no "]")
BadPattern(pattern) == \E i \in 1..Len(pattern) : pattern[i] = "["

\* The names of a directory as filepath.Glob reads them: sorted
RECURSIVE SortedNames(_)
SortedNames(names) ==
    IF names = {} THEN <<>>
    ELSE LET least == CHOOSE n \in names : \A m \in names : n = m \/ StrLess(n, m)
         IN  <<least>> \o SortedNames(names \ {least})

\* filepath.Glob(filepath.Join(OutputDir, filePattern)): an error for a
\* malformed pattern, else the matching entries of the directory in
\* sorted order, each joined to the directory
Glob(filePattern) ==
    IF BadPattern(filePattern)
    THEN [err |-> TRUE, matches |-> <<>>]
    ELSE LET names == SortedNames(outputFiles)
             matching == SelectSeq(names, LAMBDA name : Match(filePattern, name))
         IN  [err |-> FALSE,
              matches |-> [i \in 1..Len(matching) |-> OutputDir \o <<matching[i]>>]]

ErrNotFound == "fnpack not found in PATH or common locations"
ErrRun == "fnpack build failed"
ErrSearch == "failed to search for fpk file"
ErrNoFpk == "no .fpk file found"

\* RunFnpack returns "", err
ReturnFnpackError(err) ==
    /\ pc' = "returned"
    /\ fnpackErr' = err
    /\ fpkFile' = <<>>

\* RunFnpack returns fpkFile, nil
ReturnFpkFile(path) ==
    /\ pc' = "returned"
    /\ fnpackErr' = "nil"
    /\ fpkFile' = path

\* After a successful Build: the output directory holds the app directory
\* (unless the app name is empty) and what earlier runs left
InitFnpack ==
    /\ pc = "findFnpack"
    /\ AppName \in FnpackAppNames
    /\ \E stale \in SUBSET StaleFileChoices :
           /\ Cardinality(stale) <= MaxStaleFiles
           /\ outputFiles = stale \cup (IF AppName = <<>> THEN {} ELSE {AppName})
    /\ exitCode = -1 /\ packaged = {} /\ fpkFile = <<>> /\ fnpackErr = ""
    /\ inputDir = <<>> /\ Compose = <<>> /\ fs = <<>>
    /\ pendingKeys = {} /\ loopIndex = 0 /\ srcImg = <<>> /\ buildErr = "nil"
    /\ skipFnpack = FALSE
    /\ IdleHostPort /\ IdleImage /\ IdleExtract /\ IdleClean /\ IdleManifest
    /\ IdleReplace /\ IdleSquare /\ IdleValue

\* findFnpack: the executable is found in one of the locations or not
findFnpack ==
    /\ pc = "findFnpack"
    /\ \E found \in BOOLEAN :
           IF found
           THEN pc' = "cmd.Run" /\ UNCHANGED <<fpkFile, fnpackErr>>
           ELSE ReturnFnpackError(ErrNotFound)
    /\ UNCHANGED <<outputFiles, exitCode, packaged>>
    /\ UNCHANGED <<hostPortVars, imageVars, extractVars, cleanVars, manifestVars, replaceVars, buildVars, squareVars, valueVars>>

\* cmd.Run(): the packager runs in the output directory and exits
cmdRun ==
    /\ pc = "cmd.Run"
    /\ \E code \in {0, 1}, produced \in PackagerOutputs(AppName) :
           /\ exitCode' = code
           /\ outputFiles' = outputFiles \cup produced
           /\ packaged' = produced
           /\ IF code = 0
              THEN pc' = "findFpkFile" /\ UNCHANGED <<fpkFile, fnpackErr>>
              ELSE ReturnFnpackError(ErrRun)
    /\ UNCHANGED <<hostPortVars, imageVars, extractVars, cleanVars, manifestVars, replaceVars, buildVars, squareVars, valueVars>>

\* findFpkFile: the search for <appName>*.fpk
findFpkFile ==
    /\ pc = "findFpkFile"
    /\ LET found == Glob(AppName \o <<"*", ".", "f", "p", "k">>)
       IN  IF found.err THEN ReturnFnpackError(ErrSearch)
           ELSE IF Len(found.matches) > 0 THEN ReturnFpkFile(found.matches[1])
           ELSE pc' = "findFpkFile.fallback" /\ UNCHANGED <<fpkFile, fnpackErr>>
    /\ UNCHANGED <<outputFiles, exitCode, packaged>>
    /\ UNCHANGED <<hostPortVars, imageVars, extractVars, cleanVars, manifestVars, replaceVars, buildVars, squareVars, valueVars>>

\* findFpkFile: the fallback search for *.fpk, a pattern that is well formed
findFpkFileFallback ==
    /\ pc = "findFpkFile.fallback"
    /\ LET found == Glob(<<"*", ".", "f", "p", "k">>)
       IN  IF Len(found.matches) = 0 THEN ReturnFnpackError(ErrNoFpk)
           ELSE ReturnFpkFile(found.matches[1])
    /\ UNCHANGED <<outputFiles, exitCode, packaged>>
    /\ UNCHANGED <<hostPortVars, imageVars, extractVars, cleanVars, manifestVars, replaceVars, buildVars, squareVars, valueVars>>

NextFnpack ==
    \/ findFnpack
    \/ cmdRun
    \/ findFpkFile
    \/ findFpkFileFallback

SpecFnpack == InitFnpack /\ [][NextFnpack]_vars

\* The entries of the output directory that the pattern <prefix>*.fpk
\* matches: a prefix with a "[" is no well-formed pattern and matches none
FpkMatches(prefix) ==
    IF \E i \in 1..Len(prefix) : prefix[i] = "[" THEN {}
    ELSE {name \in outputFiles :
              /\ Len(name) >= Len(prefix) + 4
              /\ Take(name, Len(prefix)) = prefix
              /\ Drop(name, Len(name) - 4) = <<".", "f", "p", "k">>}

\* The first of a non-empty set of names in the order of the glob
FirstMatch(names) ==
    OutputDir \o <<CHOOSE name \in names : \A other \in names : LexLeq(name, other)>>

\* C19: after the packager exited successfully findFpkFile returns the first
\* match of <appname>*.fpk in the output directory if there is one, otherwise
\* the first match of *.fpk; RunFnpack returns an error and no path when the
\* packager exits non-zero or when no .fpk file matches.
C19_FindFpkFile ==
    (pc = "returned" /\ exitCode # -1) =>
        IF exitCode # 0 \/ FpkMatches(<<>>) = {}
        THEN fnpackErr # "nil" /\ fpkFile = <<>>
        ELSE /\ fnpackErr = "nil"
             /\ fpkFile = IF FpkMatches(AppName) # {}
                          THEN FirstMatch(FpkMatches(AppName))
                          ELSE FirstMatch(FpkMatches(<<>>))

\* The descriptor's extension block has a manifest with the key appname
HasExplicitAppname ==
    /\ <<"m", "a", "n", "i", "f", "e", "s", "t">> \in DOMAIN ParsedDescriptor.xfnpack
    /\ K_appname \in DOMAIN ParsedDescriptor.xfnpack[<<"m", "a", "n", "i", "f", "e", "s", "t">>].map

\* The appname value of the descriptor as text
ExplicitAppname ==
    LET value == ParsedDescriptor.xfnpack[<<"m", "a", "n", "i", "f", "e", "s", "t">>].map[K_appname]
    IN  IF value.type = "string" THEN value.str ELSE Digits(value.num)

\* ServiceName of the descriptor: the declared name that sorts first, empty
\* without services
DescriptorServiceName ==
    LET names == {ParsedDescriptor.services[i].name : i \in DOMAIN ParsedDescriptor.services}
    IN  IF names = {} THEN <<>>
        ELSE CHOOSE name \in names : \A other \in names : LexLeq(name, other)

ResolvedAppName ==
    IF HasExplicitAppname THEN ExplicitAppname ELSE DescriptorServiceName

\* The output root for an app name without separator: the directory of that
\* name in the output directory, the output directory itself for an empty name
OutputRoot(name) == IF name = <<>> THEN OutputDir ELSE OutputDir \o <<name>>

\* C20: the app name that names the output root directory is the explicit
\* appname value of the extension block's manifest whenever that key is
\* present, and ServiceName otherwise: it is Builder.AppName once the
\* descriptor is parsed, and after a successful build the tree stands in
\* the directory of that name in the output directory.
C20_AppNameResolution ==
    /\ Compose # <<>> => AppName = ResolvedAppName
    /\ BuildSucceeded =>
           /\ IsDir(fs, OutputRoot(ResolvedAppName) \o <<<<"c", "m", "d">>>>)
           /\ IsFile(fs, OutputRoot(ResolvedAppName) \o <<<<"m", "a", "n", "i", "f", "e", "s", "t">>>>)
           /\ \A i \in DOMAIN AppDirs :
                  IsDir(fs, OutputRoot(ResolvedAppName) \o Split(AppDirs[i], "/"))

\* A build of a descriptor with service web and appname app has succeeded
C20_Witness ==
    /\ BuildSucceeded
    /\ HasExplicitAppname
    /\ ExplicitAppname = <<"a", "p", "p">>
    /\ DescriptorServiceName = <<"w", "e", "b">>
    /\ AppName = <<"a", "p", "p">>
    /\ IsDir(fs, OutputDir \o <<<<"a", "p", "p">>, <<"c", "m", "d">>>>)

----------------------------------------------------------------------------
(* GetManifestValue *)

\* Bound: the most keys a manifest passed to GetManifestValue holds.
MaxValueKeys == 2

\* The entries the manifests are drawn from: strings, numbers, booleans and
\* a key without value
ValueEntries ==
    K_appname :> StringValue(<<"m", "y", "a", "p", "p">>)
    @@ K_version :> FloatValue(1, <<"5">>)
    @@ K_service_port :> IntValue(42)
    @@ K_beta :> BoolValue(TRUE)
    @@ K_reloadui :> BoolValue(FALSE)
    @@ K_desc :> StringValue(<<>>)
    @@ K_zz :> NilValue

\* A manifest argument: nil, or a map (the empty one included)
ValueManifests ==
    {[nil |-> TRUE, map |-> <<>>]}
    \cup {[nil |-> FALSE, map |-> [key \in D |-> ValueEntries[key]]] :
             D \in {D \in SUBSET DOMAIN ValueEntries : Cardinality(D) <= MaxValueKeys}}

GetManifestValueBoolText(m, key, defaultValue) ==
    IF m.nil THEN defaultValue
    ELSE IF key \in DOMAIN m.map
         THEN IF m.map[key].type = "bool"
              THEN (IF m.map[key].bool THEN <<"t", "r", "u", "e">> ELSE <<"f", "a", "l", "s", "e">>)
              ELSE formatManifestValue(m.map[key])
         ELSE defaultValue

GetManifestValue(m, key, defaultValue) ==
    IF m.nil THEN defaultValue
    ELSE IF key \in DOMAIN m.map
         THEN CASE m.map[key].type = "string" -> m.map[key].str
                [] m.map[key].type \in {"int", "float64"} -> FormatNumber(m.map[key])
                [] m.map[key].type = "bool" -> IF m.map[key].bool THEN <<"y", "e", "s">> ELSE <<"n", "o">>
                [] OTHER -> <<"<", "n", "i", "l", ">">>
         ELSE defaultValue

InitValue ==
    /\ pc = "call"
    /\ valueManifest \in ValueManifests
    /\ valueKey \in DOMAIN ValueEntries \cup {<<"m", "i", "s", "s", "i", "n", "g">>}
    /\ valueDefault \in {<<"f", "a", "l", "l", "b", "a", "c", "k">>, <<>>}
    /\ valueReturned = <<>>
    /\ IdleHostPort /\ IdleImage /\ IdleExtract /\ IdleClean /\ IdleManifest
    /\ IdleReplace /\ IdleBuild /\ IdleSquare /\ IdleFnpack

GetValueCall ==
    /\ pc = "call"
    /\ valueReturned' = GetManifestValue(valueManifest, valueKey, valueDefault)
    /\ pc' = "done"
    /\ UNCHANGED <<valueManifest, valueKey, valueDefault>>
    /\ UNCHANGED <<hostPortVars, imageVars, extractVars, cleanVars, manifestVars, replaceVars, buildVars, squareVars, fnpackVars>>

NextValue == GetValueCall

SpecValue == InitValue /\ [][NextValue]_vars

\* C21: GetManifestValue returns the supplied default when the manifest is
\* nil or lacks the key; for a key that is present it returns a string
\* verbatim, a number in its decimal notation, and a boolean as yes or no.
C21_GetManifestValue ==
    pc = "done" =>
        IF valueManifest.nil \/ valueKey \notin DOMAIN valueManifest.map
        THEN valueReturned = valueDefault
        ELSE LET value == valueManifest.map[valueKey]
             IN  /\ value.type = "string" => valueReturned = value.str
                 /\ value.type = "int" => valueReturned = Digits(value.num)
                 /\ (value.type = "float64" /\ value.frac = <<>>) =>
                        valueReturned = Digits(value.num)
                 /\ (value.type = "float64" /\ value.frac # <<>>) =>
                        valueReturned = Digits(value.num) \o <<".">> \o value.frac
                 /\ value.type = "bool" =>
                        valueReturned = IF value.bool THEN <<"y", "e", "s">> ELSE <<"n", "o">>

\* The boolean false of a manifest that also holds a number was returned as no
C21_Witness ==
    /\ pc = "done"
    /\ ~valueManifest.nil
    /\ DOMAIN valueManifest.map = {K_reloadui, K_service_port}
    /\ valueKey = K_reloadui
    /\ valueDefault = <<"f", "a", "l", "l", "b", "a", "c", "k">>
    /\ valueReturned = <<"n", "o">>

\* WriteUIConfig has just written the default UI config
DefaultUIConfigWritten ==
    /\ pc = "CopyCompose"
    /\ <<"a", "p", "p", "/", "u", "i", "/", "c", "o", "n", "f", "i", "g">> \notin DOMAIN Compose.Files

\* The JSON value of the file app/ui/config
UIConfigJson == fs[JoinPath(GetAppDir, <<"a", "p", "p", "/", "u", "i", "/", "c", "o", "n", "f", "i", "g">>)].content.json

\* The members of a JSON object as a set, and the value of its only member
MemberSet(object) == {object.members[i] : i \in DOMAIN object.members}
OnlyMember(object) == object.members[1]

\* The object has the top-level key .url alone, and below it one entry with
\* the key ServiceName.Application alone
HasOneUIEntry(json) ==
    /\ json.kind = "object" /\ Len(json.members) = 1
    /\ OnlyMember(json).key = <<".", "u", "r", "l">>
    /\ OnlyMember(json).value.kind = "object"
    /\ Len(OnlyMember(json).value.members) = 1
    /\ OnlyMember(OnlyMember(json).value).key = Variables.ServiceName \o <<".", "A", "p", "p", "l", "i", "c", "a", "t", "i", "o", "n">>
    /\ OnlyMember(OnlyMember(json).value).value.kind = "object"

UIEntry(json) == OnlyMember(OnlyMember(json).value).value

\* The fields of the entry other than the port
FixedUIFields ==
    { [key |-> <<"t", "i", "t", "l", "e">>, value |-> [kind |-> "string", str |-> Variables.ServiceName]],
      [key |-> <<"i", "c", "o", "n">>, value |-> [kind |-> "string", str |-> <<"i", "m", "a", "g", "e", "s", "/", "i", "c", "o", "n", "_", "{", "0", "}", ".", "p", "n", "g">>]],
      [key |-> <<"t", "y", "p", "e">>, value |-> [kind |-> "string", str |-> <<"u", "r", "l">>]],
      [key |-> <<"p", "r", "o", "t", "o", "c", "o", "l">>, value |-> [kind |-> "string", str |-> <<"h", "t", "t", "p">>]],
      [key |-> <<"u", "r", "l">>, value |-> [kind |-> "string", str |-> <<"/">>]],
      [key |-> <<"a", "l", "l", "U", "s", "e", "r", "s">>, value |-> [kind |-> "bool", bool |-> TRUE]] }

PortUIField == [key |-> <<"p", "o", "r", "t">>, value |-> [kind |-> "string", str |-> Variables.FirstPort]]

EntryMode(key) == IF Take(key, 4) = <<"c", "m", "d", "/">> THEN "0755" ELSE "0644"

\* C23: every path-keyed entry of the extension block is written, after
\* template substitution, to its path below the app directory, its parent
\* directories created; after a successful build its file is executable
\* (0755) if the key begins with cmd/ and has mode 0644 otherwise.
C23_EntriesWrittenWithMode ==
    /\ pc = "WriteConfigs.privilege" =>
           \A key \in DOMAIN Compose.Files :
               /\ HoldsUserContent(key, {other \in DOMAIN Compose.Files :
                                            JoinPath(GetAppDir, other) = JoinPath(GetAppDir, key)})
               /\ IsDir(fs, DirOf(JoinPath(GetAppDir, key)))
    /\ BuildSucceeded =>
           \A key \in DOMAIN Compose.Files :
               /\ IsFile(fs, JoinPath(GetAppDir, key))
               /\ fs[JoinPath(GetAppDir, key)].perm = EntryMode(key)

----------------------------------------------------------------------------
(* runBuild: Build, and RunFnpack unless --skip-fnpack is set *)

\* The input directories of a whole run: those whose extension block has no
\* path-keyed entry but docs/readme
RunInputDirs ==
    {dir \in InputDirs :
        (/\ ComposeYaml \in DOMAIN dir.files
         /\ dir.files[ComposeYaml].kind = "file"
         /\ dir.files[ComposeYaml].holds = "descriptor")
        => DOMAIN dir.files[ComposeYaml].descriptor.xfnpack
               \subseteq {<<"m", "a", "n", "i", "f", "e", "s", "t">>, <<"d", "o", "c", "s", "/", "r", "e", "a", "d", "m", "e">>}}

InitRun ==
    /\ pc = "parseCompose"
    /\ inputDir \in RunInputDirs
    /\ skipFnpack \in BOOLEAN
    /\ Compose = <<>>
    /\ Variables = EmptyVariables
    /\ AppName = <<>>
    /\ fs = (OutputDir :> DirEntry)
    /\ pendingKeys = {}
    /\ loopIndex = 0
    /\ srcImg = <<>>
    /\ buildErr = ""
    /\ composeDecl = <<>> /\ Services = <<>> /\ serviceNames = <<>>
    /\ IdleHostPort /\ IdleImage /\ IdleClean /\ IdleManifest /\ IdleReplace
    /\ IdleSquare /\ IdleFnpack /\ IdleValue

\* The names of the entries of the output directory
OutputDirEntries ==
    {path[Len(OutputDir) + 1] :
        path \in {q \in DOMAIN fs : Len(q) = Len(OutputDir) + 1
                                    /\ Take(q, Len(OutputDir)) = OutputDir}}

BuildWithFnpackAlways ==
    /\ pc = "returned"
    /\ fnpackErr = ""
    /\ pc' = "findFnpack"
    /\ outputFiles' = OutputDirEntries
    /\ UNCHANGED <<exitCode, packaged, fpkFile, fnpackErr>>
    /\ UNCHANGED <<hostPortVars, imageVars, extractVars, cleanVars, manifestVars, replaceVars, buildVars, squareVars, valueVars>>

\* runBuild without --skip-fnpack calls BuildWithFnpack: once Build has
\* returned nil, RunFnpack is called
BuildWithFnpack ==
    /\ pc = "returned"
    /\ buildErr = "nil"
    /\ ~skipFnpack
    /\ fnpackErr = ""
    /\ pc' = "findFnpack"
    /\ outputFiles' = OutputDirEntries
    /\ UNCHANGED <<exitCode, packaged, fpkFile, fnpackErr>>
    /\ UNCHANGED <<hostPortVars, imageVars, extractVars, cleanVars, manifestVars, replaceVars, buildVars, squareVars, valueVars>>

NextRun ==
    \/ NextBuild
    \/ BuildWithFnpack
    \/ NextFnpack

SpecRun == InitRun /\ [][NextRun]_vars

\* The stage a position belongs to: 1 parse, 2 directories, 3 files, 4 icons,
\* 5 packager; 0 for a position between or after the stages
StageOf(position) ==
    CASE position = "parseCompose" -> 1
      [] position = "CreateDirectories" -> 2
      [] position \in {"WriteManifest", "WriteCustomFiles", "WriteConfigs.privilege",
                       "WriteConfigs.resource", "WriteScript.main", "WriteScript.lifecycle",
                       "WriteUIConfig", "CopyCompose", "WriteLicense"} -> 3
      [] position \in {"ProcessIcons", "CopyIcons"} -> 4
      [] position \in {"findFnpack", "cmd.Run", "findFpkFile", "findFpkFile.fallback"} -> 5
      [] OTHER -> 0

\* C24: the stages run in the order parse, directories, files, icons,
\* packager, each entered only from the one before it while no error has been
\* returned; Build returns success only out of the icon stage; the packager
\* stage is entered only after Build returned success and with the skip flag
\* unset, and the packager is run at most once.
C24_StagesInOrder ==
    [][/\ (StageOf(pc') \in 1..4 /\ StageOf(pc') # StageOf(pc)) =>
              (StageOf(pc') = StageOf(pc) + 1 /\ buildErr = "" /\ buildErr' = "")
       /\ (StageOf(pc') = 5 /\ StageOf(pc) # 5) =>
              (pc = "returned" /\ buildErr = "nil" /\ ~skipFnpack /\ exitCode = -1)
       /\ (buildErr' = "nil" /\ buildErr # "nil") => StageOf(pc) = 4
       /\ (pc' = "cmd.Run" /\ pc # "cmd.Run") => (exitCode = -1 /\ buildErr = "nil" /\ ~skipFnpack)
       /\ exitCode' # exitCode => (pc = "cmd.Run" /\ exitCode = -1)
       /\ skipFnpack => (exitCode' = -1 /\ StageOf(pc') # 5)]_vars

\* A run went through every stage: the packager ran and its artifact was found
C24_Witness ==
    /\ pc = "returned"
    /\ ~skipFnpack
    /\ buildErr = "nil"
    /\ exitCode = 0
    /\ fnpackErr = "nil"
    /\ fpkFile # <<>>

\* C25: the result of ReplaceVariables depends only on the content and the
\* Variables: whatever order the three placeholders are processed in, the
\* output is the text this call returned, also for Variables whose values
\* hold placeholder tokens.
C25_ReplaceOrderIndependent ==
    pc = "done" =>
        \A order \in PlaceholderOrders :
            ReplaceVariablesIn(replContent, Variables, order) = replaced

\* path is dir or lies below it
IsInside(path, dir) == Len(path) >= Len(dir) /\ Take(path, Len(dir)) = dir

\* The paths a step creates or overwrites
PathsWritten(before, after) ==
    {path \in DOMAIN after : path \notin DOMAIN before \/ after[path] # before[path]}

\* C26: every file and directory that a step of Build creates or overwrites
\* lies inside the app root, the directory of the app name in the output
\* directory, and that app root is a proper subdirectory of the output
\* directory.
C26_WritesStayInsideAppRoot ==
    [][\A path \in PathsWritten(fs, fs') :
           /\ IsInside(path, GetAppDir)
           /\ IsInside(GetAppDir, OutputDir)
           /\ GetAppDir # OutputDir]_vars

\* The lines of a manifest text, its key = value lines first to last
ManifestLines(text) == Split(text, "\n")

\* The key of a formatted line: what precedes the padding
LineKey(line) ==
    IF IndexRune(line, " ") = 0 THEN line ELSE Take(line, IndexRune(line, " ") - 1)

\* The value of a formatted line: what follows "= "
LineValue(line) == Drop(line, IndexRune(line, "=") + 1)

Emits(text, key) ==
    \E i \in DOMAIN ManifestLines(text) :
        /\ LineKey(ManifestLines(text)[i]) = key
        /\ IndexRune(ManifestLines(text)[i], "=") # 0

Emitted(text, key) ==
    LET all == ManifestLines(text)
    IN  LineValue(all[CHOOSE i \in DOMAIN all : LineKey(all[i]) = key])

ManifestPath == JoinPath(GetAppDir, <<"m", "a", "n", "i", "f", "e", "s", "t">>)

\* The manifest file holds a text
HasManifestText ==
    /\ IsFile(fs, ManifestPath)
    /\ fs[ManifestPath].content.type = "text"

ManifestFileText == fs[ManifestPath].content.text

\* C27: after a successful build whose manifest has an appname line, the
\* name of the app root directory, Builder.AppName, is the appname value
\* written in the manifest.
C27_AppNameIsManifestAppname ==
    (BuildSucceeded /\ HasManifestText /\ Emits(ManifestFileText, K_appname)) =>
        AppName = Emitted(ManifestFileText, K_appname)

\* The key of the first entry below .url in the UI config
UIEntryKey == OnlyMember(OnlyMember(UIConfigJson).value).key

\* C28: when the build has written the default UI config and the extension
\* block's manifest gives no desktop_applaunchname, the key of the entry of
\* the default UI config is the desktop_applaunchname value of the manifest
\* the build wrote.
C28_UIKeyIsLaunchName ==
    (/\ DefaultUIConfigWritten
     /\ K_desktop_applaunchname \notin DOMAIN Compose.Manifest
     /\ HasManifestText
     /\ Emits(ManifestFileText, K_desktop_applaunchname)) =>
        UIEntryKey = Emitted(ManifestFileText, K_desktop_applaunchname)

\* The icon path template of the entry of the UI config the build wrote
IconTemplate ==
    (CHOOSE member \in MemberSet(UIEntry(UIConfigJson)) : member.key = <<"i", "c", "o", "n">>).value.str

\* The path below the app directory the template names for a size
IconNamed(size) == <<"a", "p", "p", "/", "u", "i", "/">> \o ReplaceAll(IconTemplate, <<"{", "0", "}">>, Digits(size))

\* C29: after a successful build that wrote the default UI config and the
\* icons, the icon path template of the config, with {0} replaced by 64 or
\* by 256 and resolved relative to app/ui/, names app/ui/images/icon-64.png
\* or app/ui/images/icon-256.png, the files CopyIcons wrote.
C29_IconTemplateNamesTheIcons ==
    (/\ BuildSucceeded
     /\ srcImg # <<>>
     /\ <<"a", "p", "p", "/", "u", "i", "/", "c", "o", "n", "f", "i", "g">> \notin DOMAIN Compose.Files) =>
        \A i \in {3, 4} :
            /\ IconNamed(Icons[i].width) = Icons[i].destPath
            /\ HoldsIcon(IconNamed(Icons[i].width), Icons[i].width, Icons[i].height)

\* C30: the artifact path a successful RunFnpack returns names a file that
\* this run of the packager wrote, never one that was in the output
\* directory before and that the packager left alone.
C30_ReturnsThisBuildsArtifact ==
    (pc = "returned" /\ fnpackErr = "nil") =>
        /\ Len(fpkFile) = Len(OutputDir) + 1
        /\ fpkFile[Len(fpkFile)] \in packaged

====
